---- MODULE Spec2Model ----
(***************************************************************************)
(* Section segmentation of MIMIC-III clinical notes (zensols.mimic).       *)
(*                                                                         *)
(* A note's text is a sequence of one-character strings; offsets are       *)
(* 0-based as in Python, so the character at offset i is t[i + 1].  Spans  *)
(* are half-open records [begin, end].                                     *)
(***************************************************************************)
EXTENDS Integers, Sequences, FiniteSets, TLC

VARIABLES pc, row_id, hadm_id, category, text, matches, args, sections,
          sections_persisted, seg_calls, error, filter_empty, gap_sections,
          view, db, adm

vars == <<pc, row_id, hadm_id, category, text, matches, args, sections,
          sections_persisted, seg_calls, error, filter_empty, gap_sections,
          view, db, adm>>

\* the variables of a note and of its containers
note_vars == <<row_id, hadm_id, category, text, matches, sections,
               sections_persisted, seg_calls, filter_empty, gap_sections>>

----------------------------------------------------------------------------
(* Bounds of the model.                                                    *)

MaxPieces == 3

MaxCustomLen == 1

MaxCustomMatches == 2

MaxContainerSecs == 3

MaxHeaderLen == 2

MaxSegCalls == 2

----------------------------------------------------------------------------
(* Characters and character classes (Python str / re semantics).           *)

UpperChars ==
    {"A", "B", "C", "D", "E", "F", "G", "H", "I", "J", "K", "L", "M",
     "N", "O", "P", "Q", "R", "S", "T", "U", "V", "W", "X", "Y", "Z"}

LowerChars ==
    {"a", "b", "c", "d", "e", "f", "g", "h", "i", "j", "k", "l", "m",
     "n", "o", "p", "q", "r", "s", "t", "u", "v", "w", "x", "y", "z"}

DigitChars == {"0", "1", "2", "3", "4", "5", "6", "7", "8", "9"}

AlphaChars == UpperChars \cup LowerChars

WhitespaceChars == {" ", "\n", "\t"}

LowerOf ==
    [A |-> "a", B |-> "b", C |-> "c", D |-> "d", E |-> "e", F |-> "f",
     G |-> "g", H |-> "h", I |-> "i", J |-> "j", K |-> "k", L |-> "l",
     M |-> "m", N |-> "n", O |-> "o", P |-> "p", Q |-> "q", R |-> "r",
     S |-> "s", T |-> "t", U |-> "u", V |-> "v", W |-> "w", X |-> "x",
     Y |-> "y", Z |-> "z"]

lower_char(c) == IF c \in DOMAIN LowerOf THEN LowerOf[c] ELSE c

lower(s) == [i \in 1..Len(s) |-> lower_char(s[i])]

Min(S) == CHOOSE x \in S : \A y \in S : x <= y

Max(S) == CHOOSE x \in S : \A y \in S : x >= y

RECURSIVE Flatten(_)
Flatten(ss) == IF ss = <<>> THEN <<>> ELSE Head(ss) \o Flatten(Tail(ss))

\* the slice t[b:e] of Python; b and e already inside 0..len(t)
Slice(t, b, e) ==
    IF e <= b THEN <<>> ELSE SubSeq(t, b + 1, IF e < Len(t) THEN e ELSE Len(t))

\* str.rstrip(): remove trailing whitespace
RECURSIVE rstrip(_)
rstrip(t) ==
    IF t # <<>> /\ t[Len(t)] \in WhitespaceChars
    THEN rstrip(SubSeq(t, 1, Len(t) - 1))
    ELSE t

\* str.lstrip(): remove leading whitespace
RECURSIVE lstrip(_)
lstrip(t) ==
    IF t # <<>> /\ t[1] \in WhitespaceChars THEN lstrip(Tail(t)) ELSE t

\* str.strip()
strip(t) == lstrip(rstrip(t))

\* len(s.strip()) == 0
strip_is_empty(t) == \A i \in 1..Len(t) : t[i] \in WhitespaceChars

\* offset just past the longest run of characters of class C starting at
\* offset i (i itself when the character at i is not in C)
RECURSIVE RunEnd(_, _, _)
RunEnd(t, i, C) ==
    IF i < Len(t) /\ t[i + 1] \in C THEN RunEnd(t, i + 1, C) ELSE i

\* whether the literal w occurs in t at offset i (ignoring case when ic)
LitAt(t, i, w, ic) ==
    /\ i + Len(w) <= Len(t)
    /\ \A j \in 1..Len(w) :
          IF ic THEN lower_char(t[i + j]) = lower_char(w[j])
          ELSE t[i + j] = w[j]

\* str.find(w) > -1
Contains(t, w) == \E i \in 0..Len(t) : LitAt(t, i, w, FALSE)

----------------------------------------------------------------------------
(* zensols.nlp.LexicalSpan                                                 *)

LexicalSpan(b, e) == [begin |-> b, end |-> e]

span_len(s) == s.end - s.begin

\* half-open overlap: touching end points do not overlap
overlaps(a, b) == a.begin < b.end /\ b.begin < a.end

\* ordering of spans: by (begin, end)
span_lt(a, b) == a.begin < b.begin \/ (a.begin = b.begin /\ a.end < b.end)

span_le(a, b) == a = b \/ span_lt(a, b)

\* bounding union of a non-empty sequence of spans
widen(spans) ==
    LexicalSpan(Min({spans[i].begin : i \in 1..Len(spans)}),
                Max({spans[i].end : i \in 1..Len(spans)}))

\* gaps(spans, end): the holes between the sorted spans inside [0, end)
RECURSIVE SortSpans(_)
SortSpans(spans) ==
    IF spans = <<>> THEN <<>>
    ELSE LET rest == SortSpans(Tail(spans))
             h == Head(spans)
             k == Cardinality({i \in 1..Len(rest) : span_lt(rest[i], h)})
         IN SubSeq(rest, 1, k) \o <<h>> \o SubSeq(rest, k + 1, Len(rest))

RECURSIVE GapsBetween(_, _)
GapsBetween(s, i) ==
    IF i >= Len(s) THEN <<>>
    ELSE (IF s[i + 1].begin - s[i].end > 0
          THEN <<LexicalSpan(s[i].end, s[i + 1].begin)>>
          ELSE <<>>) \o GapsBetween(s, i + 1)

gaps(spans, end) ==
    LET s == SortSpans(spans)
        lead == IF s[1].begin > 0
                THEN <<LexicalSpan(0, s[1].begin)>> ELSE <<>>
        trail == IF s[Len(s)].end < end
                 THEN <<LexicalSpan(s[Len(s)].end, end)>> ELSE <<>>
    IN lead \o GapsBetween(s, 1) \o trail

----------------------------------------------------------------------------
(* note.py: Section                                                        *)

\* the name argument None
None == <<"<None>">>

DEFAULT_SECTION_NAME == <<"d", "e", "f", "a", "u", "l", "t">>

UNKNOWN_NAME == <<"u", "n", "k", "n", "o", "w", "n">>

\* Section.headers: the slices of the note text at the header spans
headers(t, header_spans) ==
    [i \in 1..Len(header_spans) |->
        Slice(t, header_spans[i].begin, header_spans[i].end)]

\* ' '.join(ss)
RECURSIVE join_space(_)
join_space(ss) ==
    IF ss = <<>> THEN <<>>
    ELSE IF Len(ss) = 1 THEN ss[1]
    ELSE ss[1] \o <<" ">> \o join_space(Tail(ss))

\* a faulty sub_dash: the pattern without '+', every separator gives a '-'
sub_dash_each_char(s) ==
    [i \in 1..Len(s) |-> IF s[i] \in {"_", "/", " "} THEN "-" ELSE s[i]]

\* re.sub(r'[_/ ]+', '-', s)
RECURSIVE sub_dash(_)
sub_dash(s) ==
    IF s = <<>> THEN <<>>
    ELSE IF s[1] \in {"_", "/", " "}
    THEN <<"-">> \o sub_dash(SubSeq(s, RunEnd(s, 0, {"_", "/", " "}) + 1,
                                    Len(s)))
    ELSE <<s[1]>> \o sub_dash(Tail(s))

\* the name __post_init__ gives a section created with name None
inferred_name(t, header_spans) ==
    IF Len(header_spans) = 0 THEN UNKNOWN_NAME
    ELSE lower(sub_dash(join_space(headers(t, header_spans))))

\* a faulty Section: it is created with a row id
Section_with_row_id(id, name, header_spans, body_span, t) ==
    [id |-> id,
     name |-> IF name = None THEN inferred_name(t, header_spans) ELSE name,
     header_spans |-> header_spans,
     body_span |-> body_span,
     original_id |-> <<>>,
     row_id |-> <<0>>]

\* Section(id, name, container, header_spans, body_span) and __post_init__;
\* t is the text of the container; original_id is an attribute a new
\* section does not have (empty sequence)
Section(id, name, header_spans, body_span, t) ==
    [id |-> id,
     name |-> IF name = None THEN inferred_name(t, header_spans) ELSE name,
     header_spans |-> header_spans,
     body_span |-> body_span,
     original_id |-> <<>>,
     row_id |-> <<>>]

\* Section.lexspan
lexspan(sec) == widen(<<sec.body_span>> \o sec.header_spans)

\* Section.body
body(t, sec) == Slice(t, sec.body_span.begin, sec.body_span.end)

\* a faulty is_empty: the body is not stripped
is_empty_zero_length(t, sec) ==
    Len(sec.header_spans) = 0 /\ Len(body(t, sec)) = 0

\* Section.is_empty
is_empty(t, sec) ==
    Len(sec.header_spans) = 0 /\ strip_is_empty(body(t, sec))

\* Section._copy_resources: the row id of the target becomes the one of
\* the section
copy_resources(sec, target) == [target EXCEPT !.row_id = sec.row_id]

\* Section.clone: a shallow copy, with the resources of the section
clone(sec) == copy_resources(sec, sec)

----------------------------------------------------------------------------
(* regexnote.py: the section patterns, matched as Python's backtracking    *)
(* re module matches them (greedy quantifiers give back characters, the    *)
(* lazy body takes the fewest characters that let the rest match).         *)

\* a match of a two-group pattern: the whole span and the spans of
\* group 1 (header) and group 2 (body)
Match(s, e, h0, h1, b0, b1) ==
    [span |-> LexicalSpan(s, e),
     g1 |-> LexicalSpan(h0, h1),
     g2 |-> LexicalSpan(b0, b1)]

\* \n{2,} matches at offset p
NL2At(t, p) == LitAt(t, p, <<"\n", "\n">>, FALSE)

\* \s+\.\n matches at offset p (ConsultNote's second terminator)
DotAt(t, p) ==
    /\ RunEnd(t, p, WhitespaceChars) > p
    /\ LitAt(t, RunEnd(t, p, WhitespaceChars), <<".", "\n">>, FALSE)

\* \n[ ]{3}[a-zA-Z0-9/ ]+: matches at offset p (PhysicianNote's terminator)
NextHeaderAt(t, p) ==
    /\ LitAt(t, p, <<"\n", " ", " ", " ">>, FALSE)
    /\ LET r == RunEnd(t, p + 4, AlphaChars \cup DigitChars \cup {"/", " "})
       IN r > p + 4 /\ LitAt(t, r, <<":">>, FALSE)

\* whether the pattern's terminator matches at offset p, and where it ends
TermAt(term, t, p) ==
    CASE term = "nl2" -> NL2At(t, p)
      [] term = "consult" -> NL2At(t, p) \/ DotAt(t, p)
      [] term = "physician" -> NextHeaderAt(t, p)

TermEnd(term, t, p) ==
    CASE term = "nl2" -> RunEnd(t, p, {"\n"})
      [] term = "consult" ->
            IF NL2At(t, p) THEN RunEnd(t, p, {"\n"})
            ELSE RunEnd(t, p, WhitespaceChars) + 2
      [] term = "physician" ->
            RunEnd(t, p + 4, AlphaChars \cup DigitChars \cup {"/", " "}) + 1

\* (.+?) followed by the terminator, with DOTALL: the ends of a body
\* starting at b0, the smallest of which the lazy quantifier takes
LazyEnds(term, t, b0) == {p \in (b0 + 1)..Len(t) : TermAt(term, t, p)}

\* ([C]+): at offset h0: the header is the longest run of C, followed by ':'
HeaderEnd(t, h0, C) == RunEnd(t, h0, C)

HeaderAt(t, h0, C) ==
    HeaderEnd(t, h0, C) > h0 /\ LitAt(t, HeaderEnd(t, h0, C), <<":">>, FALSE)

\* [S]{kmin,}(.+?)TERM after the header's colon at offset n0 - 1: the
\* separator run is greedy and gives characters back to the body
SepBody(term, t, s, h0, h1, n0, S, kmin) ==
    LET B == {b \in (n0 + kmin)..RunEnd(t, n0, S) :
                 LazyEnds(term, t, b) # {}}
    IN IF B = {} THEN {}
       ELSE LET b0 == Max(B)
                p == Min(LazyEnds(term, t, b0))
            IN {Match(s, TermEnd(term, t, p), h0, h1, b0, p)}

\* DischargeSummaryNote 'header': ([a-zA-Z ]+):\n+(.+?)\n{2,}
DischargeHeaderAt(t, s) ==
    IF HeaderAt(t, s, AlphaChars \cup {" "})
    THEN SepBody("nl2", t, s, s, HeaderEnd(t, s, AlphaChars \cup {" "}),
                 HeaderEnd(t, s, AlphaChars \cup {" "}) + 1, {"\n"}, 1)
    ELSE {}

\* DischargeSummaryNote 'para': ([A-Z ]+):[ ]{2,}(.+?)\n{2,}
DischargeParaAt(t, s) ==
    IF HeaderAt(t, s, UpperChars \cup {" "})
    THEN SepBody("nl2", t, s, s, HeaderEnd(t, s, UpperChars \cup {" "}),
                 HeaderEnd(t, s, UpperChars \cup {" "}) + 1, {" "}, 2)
    ELSE {}

HPI_MARK == <<"H", "I", "S", "T", "O", "R", "Y", " ", "O", "F", " ", "P",
       "R", "E", "S", "E", "N", "T", " ", "I", "L", "L", "N",
       "E", "S", "S", ":">>

\* NursingOtherNote 'para': ([a-zA-Z ]+):[ ](.+?)\n{2,}
NursingAt(t, s) ==
    LET h1 == HeaderEnd(t, s, AlphaChars \cup {" "})
    IN IF /\ HeaderAt(t, s, AlphaChars \cup {" "})
          /\ LitAt(t, h1 + 1, <<" ">>, FALSE)
          /\ LazyEnds("nl2", t, h1 + 2) # {}
       THEN LET p == Min(LazyEnds("nl2", t, h1 + 2))
            IN {Match(s, TermEnd("nl2", t, p), s, h1, h1 + 2, p)}
       ELSE {}

ECHO_HEADERS ==
    <<<<"c", "o", "n", "c", "l", "u", "s", "i", "o", "n", "s">>,
      <<"f", "i", "n", "d", "i", "n", "g", "s">>,
      <<"i", "m", "p", "r", "e", "s", "s", "i", "o", "n">>,
      <<"i", "n", "d", "i", "c", "a", "t", "i", "o", "n">>,
      <<"p", "a", "t", "i", "e", "n", "t", "/", "t", "e", "s", "t",
             " ", "i", "n", "f", "o", "r", "m", "a", "t", "i", "o", "n">>,
      <<"c", "l", "i", "n", "i", "c", "a", "l", " ", "i", "m", "p",
             "l", "i", "c", "a", "t", "i", "o", "n", "s">>>>

PHYSICIAN_HEADERS ==
    <<<<"H", "P", "I">>,
      <<"C", "u", "r", "r", "e", "n", "t", " ", "m", "e", "d", "i",
             "c", "a", "t", "i", "o", "n", "s">>,
      <<"2", "4", " ", "H", "o", "u", "r", " ", "E", "v", "e", "n",
             "t", "s">>,
      <<"L", "a", "s", "t", " ", "d", "o", "s", "e", " ", "o", "f",
             " ", "A", "n", "t", "i", "b", "i", "o", "t", "i", "c", "s">>,
      <<"F", "l", "o", "w", "s", "h", "e", "e", "t", " ", "D", "a",
             "t", "a">>,
      <<"p", "h", "y", "s", "i", "c", "a", "l", " ", "e", "x", "a",
             "m", "i", "n", "a", "t", "i", "o", "n">>,
      <<"l", "a", "b", "s", " ", "/", " ", "r", "a", "d", "i", "o",
             "l", "o", "g", "y">>,
      <<"a", "s", "s", "e", "s", "s", "m", "e", "n", "t", " ", "a",
             "n", "d", " ", "p", "l", "a", "n">>,
      <<"c", "o", "d", "e", " ", "s", "t", "a", "t", "u", "s">>,
      <<"d", "i", "s", "p", "o", "s", "i", "t", "i", "o", "n">>>>

\* (w1|w2|...) at offset s ignoring case: the ends of the alternatives
\* that match there, in the order the alternatives are tried
RECURSIVE KeywordEnds(_, _, _)
KeywordEnds(t, s, words) ==
    IF words = <<>> THEN <<>>
    ELSE (IF LitAt(t, s, Head(words), TRUE)
          THEN <<s + Len(Head(words))>> ELSE <<>>)
         \o KeywordEnds(t, s, Tail(words))

\* the first element of a sequence of sets that is not empty
RECURSIVE FirstNonEmpty(_)
FirstNonEmpty(ss) ==
    IF ss = <<>> THEN {}
    ELSE IF Head(ss) # {} THEN Head(ss) ELSE FirstNonEmpty(Tail(ss))

\* EchoNote 'para': (conclusions|...):[\n ]+(.+?)\n{2,}, IGNORECASE
EchoAt(t, s) ==
    LET ks == KeywordEnds(t, s, ECHO_HEADERS)
    IN FirstNonEmpty(
        [i \in 1..Len(ks) |->
            IF LitAt(t, ks[i], <<":">>, FALSE)
            THEN SepBody("nl2", t, s, s, ks[i], ks[i] + 1, {"\n", " "}, 1)
            ELSE {}])

\* PhysicianNote 'header':
\* [ ]{3}(HPI|...):?\n(.+?)\n[ ]{3}[a-zA-Z0-9/ ]+:, IGNORECASE
PhysicianAt(t, s) ==
    LET ks == KeywordEnds(t, s + 3, PHYSICIAN_HEADERS)
    IN IF ~LitAt(t, s, <<" ", " ", " ">>, FALSE) THEN {}
       ELSE FirstNonEmpty(
        [i \in 1..Len(ks) |->
            LET c == IF LitAt(t, ks[i], <<":">>, FALSE)
                     THEN ks[i] + 1 ELSE ks[i]
            IN IF /\ LitAt(t, c, <<"\n">>, FALSE)
                  /\ LazyEnds("physician", t, c + 1) # {}
               THEN LET p == Min(LazyEnds("physician", t, c + 1))
                    IN {Match(s, TermEnd("physician", t, p),
                              s + 3, ks[i], c + 1, p)}
               ELSE {}])

\* \s*([C]+):SEP(.+?)TERM at offset s: the leading \s* is greedy and gives
\* characters back to the header, which may itself be made of spaces
LeadingSpaceAt(term, t, s, C, S, kmin) ==
    LET try(w) == IF HeaderAt(t, w, C)
                  THEN SepBody(term, t, s, w, HeaderEnd(t, w, C),
                               HeaderEnd(t, w, C) + 1, S, kmin)
                  ELSE {}
        W == {w \in s..RunEnd(t, s, WhitespaceChars) : try(w) # {}}
    IN IF W = {} THEN {} ELSE try(Max(W))

\* RadiologyNote 'para': \s*([A-Z ]+):[\n ]{2,}(.+?)\n{2,}
RadiologyAt(t, s) ==
    LeadingSpaceAt("nl2", t, s, UpperChars \cup {" "}, {"\n", " "}, 2)

\* ConsultNote 'header': \s*([a-zA-Z/ ]+):\n+(.+?)(?:[\n]{2,}|\s+\.\n)
ConsultAt(t, s) ==
    LeadingSpaceAt("consult", t, s, AlphaChars \cup {"/", " "}, {"\n"}, 1)

\* the overridden _get_matches of each RegexNote subclass: the pattern
\* tried at offset s of the text
MatchAt(cat, t, s) ==
    CASE cat = "Discharge summary" ->
            IF Contains(t, HPI_MARK) THEN DischargeParaAt(t, s)
            ELSE DischargeHeaderAt(t, s)
      [] cat = "Nursing/other" -> NursingAt(t, s)
      [] cat = "Echo" -> EchoAt(t, s)
      [] cat = "Physician" -> PhysicianAt(t, s)
      [] cat = "Radiology" -> RadiologyAt(t, s)
      [] cat = "Consult" -> ConsultAt(t, s)

\* re.finditer: the non-overlapping matches scanning left to right from
\* offset pos
RECURSIVE finditer(_, _, _)
finditer(cat, t, pos) ==
    IF pos > Len(t) THEN <<>>
    ELSE IF MatchAt(cat, t, pos) = {} THEN finditer(cat, t, pos + 1)
    ELSE LET m == CHOOSE m \in MatchAt(cat, t, pos) : TRUE
         IN <<m>> \o finditer(cat, t, IF m.span.end > pos
                                      THEN m.span.end ELSE pos + 1)

----------------------------------------------------------------------------
(* The notes of the model: each category has a vocabulary of text pieces,  *)
(* a raw text is the concatenation of at most MaxPieces pieces or one of   *)
(* the category's longer example texts                                     *)

REGEX_CATEGORIES ==
    {"Discharge summary", "Nursing/other", "Echo", "Physician",
     "Radiology", "Consult"}

\* a category with no entry in category_to_note: a plain Note
DEFAULT_CATEGORIES == {"ECG"}

CONFIGURED_CATEGORIES == REGEX_CATEGORIES \cup DEFAULT_CATEGORIES

\* a RegexNote subclass other than the six above, with its own pattern
CUSTOM_CATEGORIES == {"Custom"}

Vocabulary(cat) ==
    CASE cat = "Discharge summary" ->
        {<<"H", "I", "S", "T", "O", "R", "Y", " ", "O", "F", " ", "P",
         "R", "E", "S", "E", "N", "T", " ", "I", "L", "L",
         "N", "E", "S", "S", ":">>,
         <<"A", "b", ":">>,
         <<"\n">>,
         <<"b">>,
         <<" ">>,
         <<".">>}
      [] cat = "Nursing/other" ->
        {<<"A", "b", ":">>,
         <<" ">>,
         <<"b">>,
         <<"\n">>,
         <<".">>}
      [] cat = "Echo" ->
        {<<"F", "i", "n", "d", "i", "n", "g", "s", ":">>,
         <<"\n">>,
         <<" ">>,
         <<"b">>,
         <<".">>}
      [] cat = "Physician" ->
        {<<" ", " ", " ", "H", "P", "I", ":", "\n">>,
         <<" ", " ", " ", "h", "p", "i", "\n">>,
         <<"b">>,
         <<"\n", " ", " ", " ", "A", "b", ":">>,
         <<"\n">>}
      [] cat = "Radiology" ->
        {<<"A", "B", ":">>,
         <<" ">>,
         <<"\n">>,
         <<"b">>,
         <<".">>}
      [] cat = "Consult" ->
        {<<"a", "/", "b", ":">>,
         <<"\n">>,
         <<"b">>,
         <<" ", ".">>,
         <<" ">>}
      [] cat = "ECG" ->
        {<<"b">>,
         <<" ">>,
         <<"\n">>}

Examples(cat) ==
    CASE cat = "Discharge summary" ->
        {<<"H", "I", "S", "T", "O", "R", "Y", " ", "O", "F", " ", "P",
         "R", "E", "S", "E", "N", "T", " ", "I", "L", "L",
         "N", "E", "S", "S", ":", " ", " ", "p", "t", "\n",
         "\n", "P", "L", "A", "N", ":", " ", " ", "g", "o">>,
         <<"D", "i", "s", "c", "h", "a", "r", "g", "e", " ", "M", "e",
         "d", "i", "c", "a", "t", "i", "o", "n", "s", ":",
         "\n", "x", "\n", "\n", "\n", "b">>,
         <<"H", "I", "S", "T", "O", "R", "Y", " ", "O", "F", " ", "P",
         "R", "E", "S", "E", "N", "T", " ", "I", "L", "L",
         "N", "E", "S", "S", ":", " ", " ", "\n", "\n", "\n", "p", "t">>}
      [] cat = "Nursing/other" ->
        {<<"A", "b", ":", " ", "b", "\n", "\n", ".", "\n", "A", "b",
         ":", " ", "b">>,
         <<"A", "b", ":", " ", "\n", "\n", "\n", "b">>}
      [] cat = "Echo" ->
        {<<"F", "i", "n", "d", "i", "n", "g", "s", ":", "\n", " ",
         " ", "L", "e", "f", "t", " ", "a", "t", "r", "i",
         "u", "m", " ", "n", "o", "r", "m", "a", "l", ".",
         "\n", "\n", "b">>}
      [] cat = "Physician" ->
        {<<"b", " ", " ", " ", "H", "P", "I", ":", "\n", "b", "\n",
         " ", " ", " ", "A", "b", ":", "b">>}
      [] cat = "Radiology" ->
        {<<"b", "\n", " ", "A", "B", ":", " ", " ", "b", "\n", "\n",
         " ", "\n", "A", "B", ":", "\n", "\n", "b">>}
      [] cat = "Consult" ->
        {<<".", "\n", "a", "/", "b", ":", "\n", "b", " ", ".", "\n",
         "b">>}
      [] cat = "ECG" ->
        {<<"b", " ", "\n", "\n", " ", "b">>}

RawTexts(cat) ==
    {Flatten(ps) : ps \in UNION {[1..n -> Vocabulary(cat)] : n \in 0..MaxPieces}}
        \cup Examples(cat)

\* the whitespace around the category of a note event
CategoryPads ==
    {[left |-> <<>>, right |-> <<>>], [left |-> <<"\n">>, right |-> <<" ">>]}

\* the row id and the admission id of a note event: None or a number
RowIds == {<<>>, <<63188>>}

HadmIds == {<<>>, <<100139>>}

CustomTexts ==
    UNION {[1..n -> {"b", " "}] : n \in 0..MaxCustomLen}

\* the matches the pattern of a custom RegexNote subclass can give on a
\* text of length n: two groups, the header before the body, inside the match
CustomMatch(n) ==
    {Match(s, e, h0, h1, b0, b1) :
        s \in 0..n, e \in 0..n, h0 \in 0..n, h1 \in 0..n,
        b0 \in 0..n, b1 \in 0..n}

IsMatch(m) ==
    /\ m.span.begin <= m.g1.begin /\ m.g1.begin <= m.g1.end
    /\ m.g1.end <= m.g2.begin /\ m.g2.begin <= m.g2.end
    /\ m.g2.end <= m.span.end

\* what re.finditer guarantees of consecutive matches: left to right, not
\* overlapping, and no two empty matches at the same offset
IsScan(ms) ==
    /\ \A i \in 1..Len(ms) : IsMatch(ms[i])
    /\ \A i \in 1..(Len(ms) - 1) :
          /\ ms[i].span.end <= ms[i + 1].span.begin
          /\ ms[i].span # ms[i + 1].span

CustomScans(n) ==
    LET M == {m \in CustomMatch(n) : IsMatch(m)}
    IN {ms \in UNION {[1..k -> M] : k \in 0..MaxCustomMatches} : IsScan(ms)}

----------------------------------------------------------------------------
(* note.py, regexnote.py: the segmenters                                   *)

\* a faulty Note._get_sections: the section is created with name None
Note_get_sections_unnamed(t, rid) ==
    <<[Section(0, None, <<>>, LexicalSpan(0, Len(t)), t)
          EXCEPT !.row_id = rid]>>

\* Note._get_sections: the whole note as one section, with the row id of
\* the note
Note_get_sections(t, rid) ==
    <<[Section(0, DEFAULT_SECTION_NAME, <<>>, LexicalSpan(0, Len(t)), t)
          EXCEPT !.row_id = rid]>>

\* a faulty filter: it tests the span of group 2 instead of the match
match_survives_group2(m) == m.g2.end - m.g2.begin > 0

\* filter(lambda m: (m.end() - m.start() > 0), matches)
match_survives(m) == m.span.end - m.span.begin > 0

RECURSIVE filter_matches(_)
filter_matches(ms) ==
    IF ms = <<>> THEN <<>>
    ELSE (IF match_survives(Head(ms)) THEN <<Head(ms)>> ELSE <<>>)
         \o filter_matches(Tail(ms))

\* a faulty section_of_match: the groups are swapped
section_of_match_swapped(sid, m, t) == Section(sid, None, <<m.g2>>, m.g1, t)

\* a faulty section_of_match: the body is the whole match
section_of_match_whole(sid, m, t) == Section(sid, None, <<m.g1>>, m.span, t)

\* the section RegexNote._get_sections creates of a match
section_of_match(sid, m, t) == Section(sid, None, <<m.g1>>, m.g2, t)

\* a faulty RegexNote._get_sections: no fall back to the whole note
RegexNote_get_sections_no_fallback(t, ms, rid) ==
    [i \in 1..Len(filter_matches(ms)) |->
        section_of_match(i - 1, filter_matches(ms)[i], t)]

\* RegexNote._get_sections, given what _get_matches returned on the text
\* with two newlines appended
RegexNote_get_sections(t, ms, rid) ==
    LET kept == filter_matches(ms)
        secs == [i \in 1..Len(kept) |-> section_of_match(i - 1, kept[i], t)]
    IN IF Len(secs) = 0 THEN Note_get_sections(t, rid) ELSE secs

\* frozendict({sec.id: sec for sec in secs}): the sections in insertion
\* order of their ids; a later section with an id already present takes
\* the place of the earlier one
RECURSIVE sections_dict(_)
sections_dict(secs) ==
    IF secs = <<>> THEN <<>>
    ELSE LET init == sections_dict(SubSeq(secs, 1, Len(secs) - 1))
             last == secs[Len(secs)]
         IN IF \E i \in 1..Len(init) : init[i].id = last.id
            THEN [i \in 1..Len(init) |->
                     IF init[i].id = last.id THEN last ELSE init[i]]
            ELSE Append(init, last)

\* sort(key=lambda s: s.lexspan): a stable sort
RECURSIVE sort_by_lexspan(_)
sort_by_lexspan(secs) ==
    IF secs = <<>> THEN <<>>
    ELSE LET init == sort_by_lexspan(SubSeq(secs, 1, Len(secs) - 1))
             last == secs[Len(secs)]
             k == Cardinality({i \in 1..Len(init) :
                                  span_le(lexspan(init[i]), lexspan(last))})
         IN SubSeq(init, 1, k) \o <<last>> \o SubSeq(init, k + 1, Len(init))

\* a faulty gap_secs: empty gap sections are dropped whatever filter_empty
RECURSIVE gap_secs_always_filter(_, _, _)
gap_secs_always_filter(gs, t, fe) ==
    IF gs = <<>> THEN <<>>
    ELSE LET gsec == Section(-1, None, <<>>, Head(gs), t)
         IN (IF is_empty(t, gsec) THEN <<>> ELSE <<gsec>>)
            \o gap_secs_always_filter(Tail(gs), t, fe)

\* the gap sections GapSectionContainer._get_sections creates and keeps
RECURSIVE gap_secs(_, _, _)
gap_secs(gs, t, fe) ==
    IF gs = <<>> THEN <<>>
    ELSE LET gsec == Section(-1, None, <<>>, Head(gs), t)
         IN (IF fe /\ is_empty(t, gsec) THEN <<>> ELSE <<gsec>>)
            \o gap_secs(Tail(gs), t, fe)

\* a faulty renumber: the id is overwritten before it is saved
renumber_id_first(secs) ==
    [i \in 1..Len(secs) |->
        [secs[i] EXCEPT !.original_id = <<i - 1>>, !.id = i - 1]]

\* for sid, sec in enumerate(sections): original_id = id; id = sid
renumber(secs) ==
    [i \in 1..Len(secs) |->
        [secs[i] EXCEPT !.original_id = <<secs[i].id>>, !.id = i - 1]]

\* GapSectionContainer._get_sections over the sections of the delegate
GapSectionContainer_get_sections(delegate_sections, t, fe) ==
    LET cloned == [i \in 1..Len(delegate_sections) |->
                      clone(delegate_sections[i])]
    IN IF Len(cloned) > 0
       THEN LET ref_sec == cloned[1]
                kept == gap_secs(gaps([i \in 1..Len(cloned) |->
                                          lexspan(cloned[i])], Len(t)),
                                 t, fe)
            IN renumber(sort_by_lexspan(
                   cloned \o [i \in 1..Len(kept) |->
                                 copy_resources(ref_sec, kept[i])]))
       ELSE cloned

----------------------------------------------------------------------------
(* note.py: the views of a SectionContainer                                *)

\* sorted(self.sections.items(), key=lambda t: t[0]): a stable sort of the
\* (id, section) items by id
RECURSIVE sort_by_id(_)
sort_by_id(secs) ==
    IF secs = <<>> THEN <<>>
    ELSE LET init == sort_by_id(SubSeq(secs, 1, Len(secs) - 1))
             last == secs[Len(secs)]
             k == Cardinality({i \in 1..Len(init) : init[i].id <= last.id})
         IN SubSeq(init, 1, k) \o <<last>> \o SubSeq(init, k + 1, Len(init))

\* SectionContainer.sections_ordered
sections_ordered(secs) == sort_by_id(secs)

\* a faulty sections_by_name: a section is put in front of its list
RECURSIVE sections_by_name_prepend(_)
sections_by_name_prepend(secs) ==
    IF secs = <<>> THEN <<>>
    ELSE LET by_name == sections_by_name_prepend(
                            SubSeq(secs, 1, Len(secs) - 1))
             s == secs[Len(secs)]
         IN IF s.name \in DOMAIN by_name
            THEN [by_name EXCEPT ![s.name] = <<s>> \o @]
            ELSE by_name @@ (s.name :> <<s>>)

\* SectionContainer.sections_by_name: each section of sections.values() is
\* appended to the list of its name
RECURSIVE sections_by_name(_)
sections_by_name(secs) ==
    IF secs = <<>> THEN <<>>
    ELSE LET by_name == sections_by_name(SubSeq(secs, 1, Len(secs) - 1))
             s == secs[Len(secs)]
         IN IF s.name \in DOMAIN by_name
            THEN [by_name EXCEPT ![s.name] = Append(@, s)]
            ELSE by_name @@ (s.name :> <<s>>)

\* SectionContainer.__iter__
container_iter(secs) == sort_by_lexspan(secs)

----------------------------------------------------------------------------
(* The life of a note: it is constructed from a note event (its sections   *)
(* are computed by the transient context assignment of __post_init__),     *)
(* then a gap-filling container is derived from it.                        *)

NL2 == <<"\n", "\n">>

Init ==
    /\ pc = "init"
    /\ row_id = <<>>
    /\ hadm_id = <<>>
    /\ category = ""
    /\ text = <<>>
    /\ matches = <<>>
    /\ args = <<>>
    /\ sections = <<>>
    /\ sections_persisted = FALSE
    /\ seg_calls = 0
    /\ error = "none"
    /\ filter_empty = FALSE
    /\ gap_sections = <<>>
    /\ view = <<>>
    /\ db = <<>>
    /\ adm = <<>>

\* a faulty persisted: the value is computed on every access
persisted_never(is_set, cached, fresh) == [value |-> fresh, calls |-> 1]

\* @persisted('_sections'): the value of the property and the number of
\* times its method ran to give it
persisted(is_set, cached, fresh) ==
    IF is_set THEN [value |-> cached, calls |-> 0]
    ELSE [value |-> fresh, calls |-> 1]

\* the body of SectionContainer.sections for a note: the dictionary of what
\* the _get_sections of the note's class returns
Note_sections(cat, t, ms, rid) ==
    sections_dict(IF cat \in REGEX_CATEGORIES \cup CUSTOM_CATEGORIES
                  THEN RegexNote_get_sections(t, ms, rid)
                  ELSE Note_get_sections(t, rid))

\* Note._trans_context_update: every section of the note gets the row id
\* of the note
trans_context_update(secs, rid) ==
    [i \in 1..Len(secs) |-> [secs[i] EXCEPT !.row_id = rid]]

\* MimicContainer.__post_init__: what it raises
MimicContainer_post_init(rid) ==
    IF rid = <<>> THEN "RecordNotFoundError" ELSE "none"

\* a faulty NoteEvent.__post_init__: hadm_id is not looked at
NoteEvent_post_init_any_hadm(rid, hid) == MimicContainer_post_init(rid)

\* NoteEvent.__post_init__: what it raises before it normalizes anything
NoteEvent_post_init(rid, hid) ==
    IF MimicContainer_post_init(rid) # "none"
    THEN MimicContainer_post_init(rid)
    ELSE IF hid = <<>> THEN "MimicError" ELSE "none"

\* the category of a note event as it comes from the database: the name
\* of the category, as one element, with whitespace characters around it
RawCategory(cat, pad) == pad.left \o <<cat>> \o pad.right

\* category.strip()
category_strip(raw_category) ==
    LET stripped == strip(raw_category)
    IN IF Len(stripped) = 1 THEN stripped[1] ELSE ""

\* the construction of a note event raised: the object, which nobody gets,
\* is left as it was given
Raised(err, raw_category, raw, rid, hid) ==
    /\ pc' = "error"
    /\ error' = err
    /\ row_id' = rid
    /\ hadm_id' = hid
    /\ args' = raw_category
    /\ text' = raw
    /\ UNCHANGED <<category, matches, sections, sections_persisted, seg_calls,
                   filter_empty, gap_sections, view, db, adm>>

\* NoteEvent.__post_init__ went past its checks: the category is stripped,
\* the text is right-stripped, then the transient context is set, whose
\* update reads the sections property and gives each section the row id
Constructed(raw_category, raw, rid, hid, ms) ==
    /\ pc' = "note"
    /\ row_id' = rid
    /\ hadm_id' = hid
    /\ category' = category_strip(raw_category)
    /\ text' = rstrip(raw)
    /\ matches' = ms
    /\ LET got == persisted(sections_persisted, sections,
                            Note_sections(category', text', matches', rid))
       IN /\ sections' = trans_context_update(got.value, rid)
          /\ seg_calls' = seg_calls + got.calls
    /\ sections_persisted' = TRUE
    /\ UNCHANGED <<args, error, filter_empty, gap_sections, view, db, adm>>

\* the construction of a Note of a configured category
NewNote(cat, pad, raw, rid, hid) ==
    /\ pc = "init"
    /\ IF NoteEvent_post_init(rid, hid) # "none"
       THEN Raised(NoteEvent_post_init(rid, hid), RawCategory(cat, pad),
                   raw, rid, hid)
       ELSE Constructed(RawCategory(cat, pad), raw, rid, hid,
                        IF cat \in REGEX_CATEGORIES
                        THEN finditer(cat, rstrip(raw) \o NL2, 0) ELSE <<>>)

\* the same for a RegexNote subclass with a pattern of its own
NewCustomNote(cat, raw, ms, rid, hid) ==
    /\ pc = "init"
    /\ IsScan(ms)
    /\ \A i \in 1..Len(ms) : ms[i].span.end <= Len(rstrip(raw))
    /\ IF NoteEvent_post_init(rid, hid) # "none"
       THEN Raised(NoteEvent_post_init(rid, hid), <<cat>>, raw, rid, hid)
       ELSE Constructed(<<cat>>, raw, rid, hid, ms)

\* note.sections read by a client
Sections ==
    /\ pc \in {"note", "gap"}
    /\ seg_calls <= MaxSegCalls
    /\ LET got == persisted(sections_persisted, sections,
                            Note_sections(category, text, matches, row_id))
       IN /\ sections' = got.value
          /\ seg_calls' = seg_calls + got.calls
          /\ view' = got.value
    /\ sections_persisted' = TRUE
    /\ UNCHANGED <<pc, row_id, hadm_id, category, text, matches, args, error,
                   filter_empty, gap_sections, db, adm>>

\* a faulty clone_object: the clone is the section itself
clone_object_self(i, n) == i

\* the object the clone of the i-th of the n sections of the delegate is,
\* the delegate's sections being the objects 1..n: copy.copy creates a new
\* object
clone_object(i, n) == n + i

\* the sections of the delegate after GapSectionContainer._get_sections
\* ran: the renumbering writes to the objects of its list, which are the
\* clones and the gap sections
delegate_after(delegate_sections, t, fe) ==
    LET n == Len(delegate_sections)
        result == GapSectionContainer_get_sections(delegate_sections, t, fe)
    IN [i \in 1..n |->
           IF clone_object(i, n) = i
           THEN result[CHOOSE k \in 1..Len(result) :
                    result[k].original_id = <<delegate_sections[i].id>>]
           ELSE delegate_sections[i]]

\* GapSectionContainer(delegate, filter_empty).sections
GapSections(fe) ==
    /\ pc = "note"
    /\ pc' = "gap"
    /\ filter_empty' = fe
    /\ gap_sections' = sections_dict(
            GapSectionContainer_get_sections(sections, text, fe))
    /\ sections' = delegate_after(sections, text, fe)
    /\ UNCHANGED <<row_id, hadm_id, category, text, matches, args,
                   sections_persisted, seg_calls, error, view, db, adm>>

Next ==
    \/ /\ pc = "init"
       /\ \E cat \in CONFIGURED_CATEGORIES : \E raw \in RawTexts(cat) :
             \E pad \in CategoryPads : \E rid \in RowIds :
                \E hid \in HadmIds : NewNote(cat, pad, raw, rid, hid)
    \/ /\ pc = "init"
       /\ \E cat \in CUSTOM_CATEGORIES : \E raw \in CustomTexts :
             \E ms \in CustomScans(Len(rstrip(raw))) :
                \E rid \in RowIds : \E hid \in HadmIds :
                   NewCustomNote(cat, raw, ms, rid, hid)
    \/ \E fe \in BOOLEAN : GapSections(fe)
    \/ Sections

Spec == Init /\ [][Next]_vars

----------------------------------------------------------------------------
(* A SectionContainer whose _get_sections creates sections of its own      *)
(* (as the annotated notes of MedSecId do), and its views.                 *)

EXAMPLE_HEADER == <<"D", "i", "s", "c", "h", "a", "r", "g", "e", " ", "M", "e",
      "d", "i", "c", "a", "t", "i", "o", "n", "s">>

EXPLICIT_NAME == <<"H", " ", "p">>

HeaderAlphabet == {"A", "_", "/", " "}

SectionTexts ==
    UNION {[1..n -> HeaderAlphabet] : n \in 0..MaxHeaderLen}
        \cup {EXAMPLE_HEADER}

\* the offsets header spans are drawn from
Points(t) ==
    IF Len(t) <= MaxHeaderLen + 1 THEN 0..Len(t) ELSE {0, 9, 10, Len(t)}

SpansOver(P) == {LexicalSpan(b, e) : b \in P, e \in P}

\* at most two header spans, in text order
HeaderSpanSeqs(t) ==
    LET S == {s \in SpansOver(Points(t)) : s.begin <= s.end}
    IN {<<>>} \cup {<<s>> : s \in S}
       \cup {p \in {<<s1, s2>> : s1 \in S, s2 \in S} :
                p[1].end <= p[2].begin}

SectionArgs(id, name, header_spans, body_span) ==
    [id |-> id, name |-> name, header_spans |-> header_spans,
     body_span |-> body_span]

\* one section over a text of header characters
OneSectionArgs(t) ==
    {<<SectionArgs(0, name, hs, LexicalSpan(Len(t), Len(t)))>> :
        name \in {None, EXPLICIT_NAME}, hs \in HeaderSpanSeqs(t)}

\* the text of n slots: a header character (A, B in turn) and a body
\* character each
SlotText(n) ==
    [i \in 1..(2 * n) |->
        IF i % 2 = 0 THEN "x" ELSE IF i % 4 = 1 THEN "A" ELSE "B"]

Permutations_(n) ==
    {f \in [1..n -> 0..(n - 1)] : \A i, j \in 1..n : i # j => f[i] # f[j]}

\* n sections, one per slot, created in any order, with any assignment of
\* the ids 0..n-1, each named by its header or given the name "a"
SlotSectionArgs(n) ==
    {[i \in 1..n |->
        SectionArgs(ids[i], names[i],
                    <<LexicalSpan(2 * slots[i], 2 * slots[i] + 1)>>,
                    LexicalSpan(2 * slots[i] + 1, 2 * slots[i] + 2))] :
        slots \in Permutations_(n), ids \in Permutations_(n),
        names \in [1..n -> {None, <<"a">>}]}

\* a container is created and its sections property is read
NewContainer(t, as) ==
    /\ pc = "init"
    /\ pc' = "container"
    /\ text' = t
    /\ args' = as
    /\ sections' = sections_dict(
            [i \in 1..Len(as) |->
                Section(as[i].id, as[i].name, as[i].header_spans,
                        as[i].body_span, t)])
    /\ sections_persisted' = TRUE
    /\ seg_calls' = seg_calls + 1
    /\ UNCHANGED <<row_id, hadm_id, category, matches, error, filter_empty,
                   gap_sections, view, db, adm>>

SectionsOrdered ==
    /\ pc = "container"
    /\ pc' = "ordered"
    /\ view' = sections_ordered(sections)
    /\ UNCHANGED <<row_id, hadm_id, category, text, matches, args, sections,
                   sections_persisted, seg_calls, error, filter_empty,
                   gap_sections, db, adm>>

SectionsByName ==
    /\ pc = "container"
    /\ pc' = "by_name"
    /\ view' = sections_by_name(sections)
    /\ UNCHANGED <<row_id, hadm_id, category, text, matches, args, sections,
                   sections_persisted, seg_calls, error, filter_empty,
                   gap_sections, db, adm>>

Iter ==
    /\ pc = "container"
    /\ pc' = "iter"
    /\ view' = container_iter(sections)
    /\ UNCHANGED <<row_id, hadm_id, category, text, matches, args, sections,
                   sections_persisted, seg_calls, error, filter_empty,
                   gap_sections, db, adm>>

NextContainer ==
    \/ /\ pc = "init"
       /\ \E t \in SectionTexts : \E as \in OneSectionArgs(t) :
             NewContainer(t, as)
    \/ /\ pc = "init"
       /\ \E n \in 1..MaxContainerSecs : \E as \in SlotSectionArgs(n) :
             NewContainer(SlotText(n), as)
    \/ SectionsOrdered
    \/ SectionsByName
    \/ Iter

SpecContainer == Init /\ [][NextContainer]_vars

----------------------------------------------------------------------------
(* Properties of the segmenters                                            *)

\* the offsets of the text a span covers
Offsets(s) == {i \in s.begin..(s.end - 1) : TRUE}

Lexspans(secs) == [i \in 1..Len(secs) |-> lexspan(secs[i])]

Covered(secs) == UNION {Offsets(lexspan(secs[i])) : i \in 1..Len(secs)}

NoOverlap(secs) ==
    \A i, j \in 1..Len(secs) :
        i # j => ~overlaps(lexspan(secs[i]), lexspan(secs[j]))

CoversText(secs, t) ==
    /\ Covered(secs) = 0..(Len(t) - 1)
    /\ \A i \in 1..Len(secs) :
          lexspan(secs[i]).begin >= 0 /\ lexspan(secs[i]).end <= Len(t)

IsGapSection(sec) == sec.original_id = <<-1>>

C2_IdContiguity ==
    pc = "gap" =>
        /\ \A i \in 1..Len(gap_sections) :
              /\ gap_sections[i].id = i - 1
              /\ Len(gap_sections[i].original_id) = 1
              /\ \/ /\ IsGapSection(gap_sections[i])
                    /\ gap_sections[i].header_spans = <<>>
                 \/ \E j \in 1..Len(sections) :
                       /\ gap_sections[i].original_id = <<sections[j].id>>
                       /\ gap_sections[i].header_spans
                             = sections[j].header_spans
                       /\ gap_sections[i].body_span = sections[j].body_span
                       /\ gap_sections[i].name = sections[j].name
        /\ \A i \in 1..(Len(gap_sections) - 1) :
              span_le(lexspan(gap_sections[i]), lexspan(gap_sections[i + 1]))
        /\ \A j \in 1..Len(sections) :
              Cardinality({i \in 1..Len(gap_sections) :
                  gap_sections[i].original_id = <<sections[j].id>>}) = 1

\* C2 witness: a gap section was put before a delegate section, whose id
\* therefore changed
C2_Witness ==
    /\ pc = "gap"
    /\ Len(gap_sections) >= 3
    /\ IsGapSection(gap_sections[1])
    /\ \E i \in 1..Len(gap_sections) :
          /\ ~IsGapSection(gap_sections[i])
          /\ gap_sections[i].original_id # <<gap_sections[i].id>>

\* C3: a note of any category (the configured ones and any other RegexNote
\* subclass) with a non-empty text has at least one section, and computing
\* them raised nothing
C3_NonEmpty ==
    (pc \in {"note", "gap"} /\ Len(text) > 0) =>
        Len(sections) >= 1 /\ error = "none"

\* C3 witness: a regex note whose pattern matched nothing, and one whose
\* matches were all discarded
C3_Witness ==
    /\ pc \in {"note", "gap"}
    /\ Len(text) > 0
    /\ category \in REGEX_CATEGORIES
    /\ matches = <<>>
    /\ Len(sections) = 1

IsRegexNote == category \in REGEX_CATEGORIES \cup CUSTOM_CATEGORIES

Survivors == SelectSeq(matches, match_survives)

WholeNoteSection ==
    [id |-> 0, name |-> DEFAULT_SECTION_NAME, header_spans |-> <<>>,
     body_span |-> [begin |-> 0, end |-> Len(text)], original_id |-> <<>>,
     row_id |-> row_id]

\* C4: the whole-note section (id 0, name "default", no header, the body
\* the whole text) is the only section of a plain Note and of a regex note
\* none of whose matches survive; a regex note with a surviving match has
\* no such section
C4_Fallback ==
    pc \in {"note", "gap"} =>
        IF ~IsRegexNote \/ Survivors = <<>>
        THEN sections = <<WholeNoteSection>>
        ELSE \A i \in 1..Len(sections) :
                /\ sections[i] # WholeNoteSection
                /\ sections[i].header_spans # <<>>

\* C4 witness: a note of a regex category with matches, none surviving
C4_Witness ==
    /\ pc \in {"note", "gap"}
    /\ IsRegexNote
    /\ matches # <<>>
    /\ Survivors = <<>>
    /\ Len(text) > 0
    /\ sections = <<WholeNoteSection>>

\* C5: k >= 1 surviving matches give exactly k sections; the i-th one in
\* scan order has id i, group 1 as its only header span and group 2 as its
\* body span
C5_MatchOrder ==
    (pc \in {"note", "gap"} /\ IsRegexNote /\ Len(Survivors) >= 1) =>
        /\ Len(sections) = Len(Survivors)
        /\ \A i \in 1..Len(sections) :
              /\ sections[i].id = i - 1
              /\ sections[i].header_spans = <<Survivors[i].g1>>
              /\ sections[i].body_span = Survivors[i].g2
        /\ \A i \in 1..(Len(Survivors) - 1) :
              Survivors[i].span.end <= Survivors[i + 1].span.begin

\* C5 witness: a shipped pattern matched twice
C5_Witness ==
    /\ pc \in {"note", "gap"}
    /\ category \in REGEX_CATEGORIES
    /\ Len(Survivors) >= 2
    /\ Len(sections) = Len(Survivors)

\* the (header span, body span) pairs of the sections made of matches
MatchSections ==
    IF \A i \in 1..Len(sections) : sections[i].header_spans = <<>>
    THEN <<>>
    ELSE [i \in 1..Len(sections) |->
            <<sections[i].header_spans[1], sections[i].body_span>>]

GroupsOf(ms) == [i \in 1..Len(ms) |-> <<ms[i].g1, ms[i].g2>>]

BodyNotEmpty(m) == span_len(m.g2) > 0

SpanNotEmpty(m) == span_len(m.span) > 0

\* C6 as the specification states it: the sections are those of the
\* matches whose group 2 is not empty, and no section made of a match has
\* an empty body span
C6_DiscardOnEmptyBody ==
    (pc \in {"note", "gap"} /\ IsRegexNote) =>
        /\ MatchSections = GroupsOf(SelectSeq(matches, BodyNotEmpty))
        /\ \A i \in 1..Len(MatchSections) : span_len(MatchSections[i][2]) > 0

\* C6 amended: a match is discarded exactly when its whole span (group 0)
\* is empty, so every match with a non-empty group 2 survives; the six
\* shipped patterns never match with an empty group 2, so their sections
\* never have an empty body span
C6_DiscardOnEmptyMatch ==
    (pc \in {"note", "gap"} /\ IsRegexNote) =>
        /\ MatchSections = GroupsOf(SelectSeq(matches, SpanNotEmpty))
        /\ \A i \in 1..Len(matches) :
              BodyNotEmpty(matches[i]) =>
                  \E j \in 1..Len(MatchSections) :
                      MatchSections[j] = <<matches[i].g1, matches[i].g2>>
        /\ category \in REGEX_CATEGORIES =>
              /\ \A i \in 1..Len(matches) : BodyNotEmpty(matches[i])
              /\ \A i \in 1..Len(MatchSections) :
                    span_len(MatchSections[i][2]) > 0

\* C6 witness: one match was discarded and one with an empty group 2 kept
C6_Witness ==
    /\ pc \in {"note", "gap"}
    /\ IsRegexNote
    /\ \E i \in 1..Len(matches) : ~SpanNotEmpty(matches[i])
    /\ \E i \in 1..Len(matches) :
          SpanNotEmpty(matches[i]) /\ ~BodyNotEmpty(matches[i])
    /\ Len(MatchSections) = 1

SpansOk(sec) ==
    /\ \A i \in 1..Len(sec.header_spans) :
          /\ ~overlaps(sec.body_span, sec.header_spans[i])
          /\ lexspan(sec).begin <= sec.header_spans[i].begin
          /\ sec.header_spans[i].end <= lexspan(sec).end
    /\ lexspan(sec).begin <= sec.body_span.begin
    /\ sec.body_span.end <= lexspan(sec).end
    /\ lexspan(sec).begin
          = Min({sec.body_span.begin}
                \cup {sec.header_spans[i].begin :
                         i \in 1..Len(sec.header_spans)})
    /\ lexspan(sec).end
          = Max({sec.body_span.end}
                \cup {sec.header_spans[i].end :
                         i \in 1..Len(sec.header_spans)})

\* C7: in every section of the whole-note default, of the shipped regex
\* categories and of gap filling, the body span overlaps no header span,
\* and both lie in the lexspan, which is (min begin, max end) over them
C7_BodyHeaderDisjoint ==
    category \in CONFIGURED_CATEGORIES =>
        /\ \A i \in 1..Len(sections) : SpansOk(sections[i])
        /\ \A i \in 1..Len(gap_sections) : SpansOk(gap_sections[i])

\* C7 witness: a gap-filled regex note with a header section and a gap
C7_Witness ==
    /\ pc = "gap"
    /\ category \in REGEX_CATEGORIES
    /\ \E i \in 1..Len(gap_sections) : gap_sections[i].header_spans # <<>>
    /\ \E i \in 1..Len(gap_sections) : IsGapSection(gap_sections[i])

----------------------------------------------------------------------------
(* Properties of Section and of the views of a container                   *)

SeparatorChars == {"_", "/", " "}

\* the header text with every run of '_', '/' or ' ' replaced by one '-'
\* and lowercased, stated offset by offset: a separator that follows a
\* separator is dropped, any other separator gives '-'
ExpectedName(h) ==
    LET K == {i \in 1..Len(h) :
                ~(h[i] \in SeparatorChars /\ i > 1
                    /\ h[i - 1] \in SeparatorChars)}
        nth(j) == CHOOSE i \in K : Cardinality({k \in K : k <= i}) = j
    IN [j \in 1..Cardinality(K) |->
          IF h[nth(j)] \in SeparatorChars THEN "-"
          ELSE IF h[nth(j)] \in UpperChars THEN LowerOf[h[nth(j)]]
          ELSE h[nth(j)]]

\* the header texts of constructor arguments joined by one space
HeaderText(a) ==
    IF Len(a.header_spans) = 1
    THEN Slice(text, a.header_spans[1].begin, a.header_spans[1].end)
    ELSE Slice(text, a.header_spans[1].begin, a.header_spans[1].end)
         \o <<" ">>
         \o Slice(text, a.header_spans[2].begin, a.header_spans[2].end)

DISCHARGE_MEDICATIONS == <<"d", "i", "s", "c", "h", "a", "r", "g", "e", "-", "m", "e",
      "d", "i", "c", "a", "t", "i", "o", "n", "s">>

\* C8: a section created with name None is named "unknown" without header
\* spans, and otherwise by its header texts joined by a space, with the
\* runs of '_', '/' and ' ' replaced by '-' and lowercased ("Discharge
\* Medications" gives "discharge-medications"); a section created with a
\* name keeps it
C8_NameInference ==
    pc = "container" =>
        \A i \in 1..Len(args) : \A j \in 1..Len(sections) :
            sections[j].id = args[i].id =>
                /\ args[i].name # None => sections[j].name = args[i].name
                /\ (args[i].name = None /\ args[i].header_spans = <<>>)
                      => sections[j].name = UNKNOWN_NAME
                /\ (args[i].name = None /\ args[i].header_spans # <<>>)
                      => /\ sections[j].name
                              = ExpectedName(HeaderText(args[i]))
                         /\ HeaderText(args[i]) = EXAMPLE_HEADER
                              => sections[j].name = DISCHARGE_MEDICATIONS

\* C8 witness: the section of the headers "Discharge" and "Medications",
\* created without a name
C8_Witness ==
    /\ pc = "container"
    /\ Len(args) = 1
    /\ args[1].name = None
    /\ Len(args[1].header_spans) = 2
    /\ HeaderText(args[1]) = EXAMPLE_HEADER
    /\ sections[1].name = DISCHARGE_MEDICATIONS

SameSections(ss, secs) ==
    /\ Len(ss) = Len(secs)
    /\ \A i \in 1..Len(secs) :
          Cardinality({k \in 1..Len(ss) : ss[k] = secs[i]}) = 1

\* C9: sections_ordered holds every section once, ascending by lexspan,
\* and is the sequence iterating the container gives, whatever the ids
C9_OrderedByLexspan ==
    pc = "ordered" =>
        /\ SameSections(view, sections)
        /\ \A i \in 1..(Len(view) - 1) :
              span_le(lexspan(view[i]), lexspan(view[i + 1]))
        /\ view = container_iter(sections)

Names(secs) == {secs[i].name : i \in 1..Len(secs)}

\* the sections of a name in the order of the sections mapping
Bucket(secs, nm) ==
    LET I == {i \in 1..Len(secs) : secs[i].name = nm}
        nth(j) == CHOOSE i \in I : Cardinality({k \in I : k <= i}) = j
    IN [j \in 1..Cardinality(I) |-> secs[nth(j)]]

\* C10: sections_by_name has one non-empty bucket per name, every section
\* is in the bucket of its name and in no other place, and a bucket keeps
\* the order of the sections mapping
C10_ByNamePartition ==
    pc = "by_name" =>
        /\ DOMAIN view = Names(sections)
        /\ \A nm \in DOMAIN view :
              /\ view[nm] # <<>>
              /\ view[nm] = Bucket(sections, nm)
        /\ \A i \in 1..Len(sections) :
              Cardinality({p \in {<<nm, k>> : nm \in DOMAIN view,
                                             k \in 1..Len(sections)} :
                              /\ p[2] <= Len(view[p[1]])
                              /\ view[p[1]][p[2]] = sections[i]}) = 1

\* C10 witness: two buckets, one with two sections whose insertion order
\* is neither their id order nor their text order
C10_Witness ==
    /\ pc = "by_name"
    /\ Cardinality(DOMAIN view) = 2
    /\ \E nm \in DOMAIN view :
          /\ Len(view[nm]) = 2
          /\ view[nm][1].id > view[nm][2].id
          /\ span_lt(lexspan(view[nm][2]), lexspan(view[nm][1]))

----------------------------------------------------------------------------
(* Properties of the life of a note                                        *)

\* C11 as the specification states it: the segmenter has not run when the
\* note is constructed and its sections have not been read yet
C11_LazySections ==
    (pc = "note" /\ view = <<>>) => seg_calls = 0

\* a step of a constructed note does not run the segmenter, and a read of
\* sections returns the cached mapping and leaves it as it is
CachedAccess ==
    pc \in {"note", "gap"} =>
        /\ seg_calls' = seg_calls
        /\ (view' # view) => (view' = sections /\ sections' = sections)

\* C11 amended: the segmenter runs exactly once per note, during the
\* construction (the transient context update of __post_init__ is the
\* first access to sections); from then on the mapping is cached, no access
\* runs the segmenter again and every access returns the cached mapping
C11_SegmentedOnce ==
    /\ [](pc \in {"note", "gap"} => sections_persisted /\ seg_calls = 1)
    /\ [][CachedAccess]_vars

\* C11 witness: the sections of a constructed note were read by a client
C11_Witness ==
    /\ pc = "note"
    /\ seg_calls = 1
    /\ view # <<>>
    /\ view = sections

\* a gap filling step leaves the sections of the delegate as they were
DelegateKept ==
    (pc = "note" /\ pc' = "gap") =>
        /\ sections' = sections
        /\ \A i \in 1..Len(sections') : sections'[i].original_id = <<>>

\* C12: deriving the sections of a gap-filling container leaves the
\* sections of its delegate as they were: the same ids in the same order,
\* each with its name, header spans and body span, and none with an
\* original_id
C12_DelegateUnchanged ==
    [][DelegateKept]_vars

\* C12 witness: gap filling renumbered the clone of a delegate section,
\* which kept its id
C12_Witness ==
    /\ pc = "gap"
    /\ \E i \in 1..Len(gap_sections) : \E j \in 1..Len(sections) :
          /\ gap_sections[i].original_id = <<sections[j].id>>
          /\ gap_sections[i].id # sections[j].id
          /\ sections[j].original_id = <<>>

----------------------------------------------------------------------------
(* note.py: the NoteFactory, which maps the category of a note event to    *)
(* the configuration section of the note class to create.                  *)

\* Python's None where a section name is expected
NO_SECTION == "None"

FACTORY_CATEGORIES == {"Radiology", "Echo", "ECG"}

FACTORY_SECTIONS ==
    {"mimic_radiology_note", "mimic_echo_note", "mimic_other_note"}

DEFAULT_NOTE_SECTION == "mimic_default_note"

\* the factories: any mapping of some of the categories to sections
NoteFactories ==
    {[category_to_note |-> m,
      mimic_default_note_section |-> DEFAULT_NOTE_SECTION] :
        m \in UNION {[D -> FACTORY_SECTIONS] : D \in SUBSET FACTORY_CATEGORIES}}

FACTORY_METHODS == {"create", "create_default", "DefaultNoteFactory.create"}

\* a faulty dict.get: a missing key gets the value of another key
dict_get_other(d, k) ==
    IF k \in DOMAIN d THEN d[k]
    ELSE IF DOMAIN d = {} THEN NO_SECTION
    ELSE d[CHOOSE j \in DOMAIN d : TRUE]

\* category_to_note.get(category)
dict_get(d, k) == IF k \in DOMAIN d THEN d[k] ELSE NO_SECTION

\* NoteFactory._create_from_note_event: the section handed on to
\* _event_to_note, which creates the instance the section configures
NoteFactory_create_from_note_event(factory, cat, section) ==
    LET mapped == IF section = NO_SECTION
                  THEN dict_get(factory.category_to_note, cat)
                  ELSE section
    IN IF mapped = NO_SECTION
       THEN factory.mimic_default_note_section
       ELSE mapped

\* NoteFactory.create
NoteFactory_create(factory, cat) ==
    NoteFactory_create_from_note_event(factory, cat, NO_SECTION)

\* NoteFactory.create_default
NoteFactory_create_default(factory, cat) ==
    NoteFactory_create_from_note_event(factory, cat,
                                       factory.mimic_default_note_section)

\* DefaultNoteFactory.create
DefaultNoteFactory_create(factory, cat) ==
    NoteFactory_create_default(factory, cat)

\* a note is created of a note event by a method of a factory
Create(factory, cat, method) ==
    /\ pc = "init"
    /\ pc' = "created"
    /\ category' = cat
    /\ args' = [factory |-> factory, method |-> method]
    /\ view' = CASE method = "create" -> NoteFactory_create(factory, cat)
                 [] method = "create_default" ->
                        NoteFactory_create_default(factory, cat)
                 [] method = "DefaultNoteFactory.create" ->
                        DefaultNoteFactory_create(factory, cat)
    /\ UNCHANGED <<row_id, hadm_id, text, matches, sections,
                   sections_persisted, seg_calls, error, filter_empty,
                   gap_sections, db, adm>>

\* the result of a call that returns
Returned(value) == [error |-> "none", value |-> value]

FACTORY_CLASSES == {"NoteFactory", "DefaultNoteFactory"}

\* the parameters of create after self, in both classes
CREATE_PARAMETERS == <<"note_event">>

\* self.create of a class
class_create(cls, factory, cat) ==
    IF cls = "DefaultNoteFactory" THEN DefaultNoteFactory_create(factory, cat)
    ELSE NoteFactory_create(factory, cat)

\* NoteFactory.__call__(note_event, section=None), which both classes
\* have: self.create(note_event, section)
NoteFactory_call(cls, factory, cat) ==
    LET arguments == <<"note_event", "section">>
    IN IF Len(arguments) > Len(CREATE_PARAMETERS)
       THEN [error |-> "TypeError", value |-> NO_SECTION]
       ELSE Returned(class_create(cls, factory, cat))

\* a factory is called as a function with a note event
Call(cls, factory, cat) ==
    /\ pc = "init"
    /\ pc' = "called"
    /\ category' = cat
    /\ args' = [factory |-> factory, method |-> cls]
    /\ LET result == NoteFactory_call(cls, factory, cat)
       IN view' = result.value /\ error' = result.error
    /\ UNCHANGED <<row_id, hadm_id, text, matches, sections,
                   sections_persisted, seg_calls, filter_empty,
                   gap_sections, db, adm>>

NextFactory ==
    \/ /\ pc = "init"
       /\ \E factory \in NoteFactories : \E cat \in FACTORY_CATEGORIES :
             \E method \in FACTORY_METHODS : Create(factory, cat, method)
    \/ /\ pc = "init"
       /\ \E factory \in NoteFactories : \E cat \in FACTORY_CATEGORIES :
             \E cls \in FACTORY_CLASSES : Call(cls, factory, cat)

SpecFactory == Init /\ [][NextFactory]_vars

\* C13: create uses the section category_to_note maps the category of the
\* event to, and the default section when the category has no mapping
\* (never the section of another category); create_default and
\* DefaultNoteFactory.create use the default section whatever the category
C13_FactoryDispatch ==
    pc = "created" =>
        LET ctn == args.factory.category_to_note
            default == args.factory.mimic_default_note_section
        IN IF args.method = "create"
           THEN /\ category \in DOMAIN ctn => view = ctn[category]
                /\ category \notin DOMAIN ctn => view = default
           ELSE view = default

\* C13 witness: create for a category with no mapping, by a factory that
\* maps the other categories
C13_Witness ==
    /\ pc = "created"
    /\ args.method = "create"
    /\ category \notin DOMAIN args.factory.category_to_note
    /\ DOMAIN args.factory.category_to_note # {}
    /\ view = DEFAULT_NOTE_SECTION

----------------------------------------------------------------------------
(* Properties of the construction of sections and note events              *)

C15_ConstructionErrors ==
    /\ pc = "error" =>
          /\ row_id = <<>> => error = "RecordNotFoundError"
          /\ row_id # <<>> => hadm_id = <<>> /\ error = "MimicError"
          /\ category = ""
          /\ sections = <<>> /\ ~sections_persisted /\ seg_calls = 0
    /\ pc \in {"note", "gap"} =>
          /\ row_id # <<>> /\ hadm_id # <<>>
          /\ error = "none"
          /\ text = rstrip(text)
          /\ \A i \in 1..Len(sections) : sections[i].row_id = row_id

\* C15 witness: the construction raised MimicError for a note event with a
\* row id and no admission id, whose category and text were left with
\* their whitespace
C15_Witness ==
    /\ pc = "error"
    /\ error = "MimicError"
    /\ row_id # <<>>
    /\ text # rstrip(text)
    /\ args # strip(args)

----------------------------------------------------------------------------
(* adm.py: a hospital admission and its notes.  The noteevents table is a  *)
(* sequence of rows, the row at position i having the row id i.            *)

MaxNotes == 3

ADM_HADM_ID == 100139

OTHER_HADM_ID == 102870

\* the category and the text of the rows: two texts differ after their
\* first character, two are the same once right-stripped
NOTE_KINDS ==
    {[category |-> "Echo", text |-> <<"a", "b">>],
     [category |-> "Echo", text |-> <<"a", "c">>],
     [category |-> "ECG", text |-> <<"a", "b", "\n">>]}

Databases ==
    UNION {[1..n -> {[hadm_id |-> h, category |-> k.category,
                      text |-> k.text] :
                        h \in {ADM_HADM_ID, OTHER_HADM_ID}, k \in NOTE_KINDS}] :
              n \in 0..MaxNotes}

\* the orders in which the keys of a set can be iterated
Orders(S) ==
    {o \in [1..Cardinality(S) -> S] :
        \A i, j \in 1..Cardinality(S) : i # j => o[i] # o[j]}

\* the SQL select_row_ids_by_hadm_id: the row ids of the rows of an admission
select_row_ids_by_hadm_id(d, h) == {i \in 1..Len(d) : d[i].hadm_id = h}

\* the note _NoteBeanStash.load creates of the row with a row id: the
\* note event of the row, its text right-stripped
Note_load(d, rid) ==
    [row_id |-> rid, hadm_id |-> d[rid].hadm_id,
     category |-> d[rid].category, text |-> rstrip(d[rid].text)]

\* a faulty _create_note_stash: the keys are the row ids of every row
create_note_stash_all(d, h) == 1..Len(d)

\* HospitalAdmissionDbStash._create_note_stash: the key subset of the
\* stash of the notes of the admission
create_note_stash(d, h) == select_row_ids_by_hadm_id(d, h)

\* HospitalAdmissionDbStash.load; keys is the order in which the key subset
\* happens to be iterated
HospitalAdmissionDbStash_load(d, h, keys) ==
    [hadm_id |-> h, key_subset |-> create_note_stash(d, h), keys |-> keys,
     source |-> "db"]

\* HospitalAdmissionDbFactoryStash.load of an admission that is cached: it
\* is unpickled without its note stash, which is created again
HospitalAdmissionDbFactoryStash_load(cached, d, keys) ==
    [hadm_id |-> cached.hadm_id,
     key_subset |-> create_note_stash(d, cached.hadm_id),
     keys |-> keys, source |-> "cache"]

\* self._note_stash.values()
note_stash_values(a, d) == [k \in 1..Len(a.keys) |-> Note_load(d, a.keys[k])]

\* HospitalAdmission.notes
HospitalAdmission_notes(a, d) == note_stash_values(a, d)

\* HospitalAdmission.__iter__
HospitalAdmission_iter(a, d) == note_stash_values(a, d)

\* HospitalAdmission.notes_by_category: the notes of each category, in the
\* order of notes
HospitalAdmission_notes_by_category(a, d) ==
    LET notes == HospitalAdmission_notes(a, d)
        cats == {notes[i].category : i \in 1..Len(notes)}
    IN [c \in cats |-> SelectSeq(notes, LAMBDA n : n.category = c)]

\* HospitalAdmission.get_duplicate_notes: the sets of the row ids of the
\* notes with the same text (or first text_start characters), those with
\* more than one row id, in the order their text comes first in notes
RECURSIVE dup_keys(_, _)
dup_keys(notes, text_start) ==
    IF notes = <<>> THEN <<>>
    ELSE LET init == dup_keys(SubSeq(notes, 1, Len(notes) - 1), text_start)
             t == notes[Len(notes)].text
             key == IF text_start = <<>> THEN t
                    ELSE Slice(t, 0, text_start[1])
         IN IF \E i \in 1..Len(init) : init[i] = key THEN init
            ELSE Append(init, key)

get_duplicate_notes(notes, text_start) ==
    LET key_of(n) == IF text_start = <<>> THEN n.text
                     ELSE Slice(n.text, 0, text_start[1])
        keys == dup_keys(notes, text_start)
        dups == [k \in 1..Len(keys) |->
                    {notes[i].row_id : i \in {j \in 1..Len(notes) :
                                                 key_of(notes[j]) = keys[k]}}]
    IN SelectSeq(dups, LAMBDA ds : Cardinality(ds) > 1)

\* HospitalAdmission.__getitem__: self._note_stash[str(row_id)], a KeyError
\* for a key that is not in the key subset of the stash
HospitalAdmission_getitem(a, d, rid) ==
    IF rid \in a.key_subset
    THEN [error |-> "none", value |-> <<Note_load(d, rid)>>]
    ELSE [error |-> "KeyError", value |-> <<>>]

\* the attributes and properties the class HospitalAdmission defines
HospitalAdmission_attributes ==
    {"admission", "patient", "diagnoses", "procedures", "_note_stash",
     "hadm_id", "notes", "notes_by_category", "get_duplicate_notes",
     "get_non_duplicate_notes", "feature_dataframe", "write_notes", "write",
     "write_full", "keys"}

FILTER_FNS == {"None", "accept_all", "accept_none", "accept_last"}

\* filter_fn(n) for the note at position i of the notes
filter_accepts(filter_fn, notes, i) ==
    CASE filter_fn = "accept_all" -> TRUE
      [] filter_fn = "accept_none" -> FALSE
      [] filter_fn = "accept_last" -> i = Len(notes)

\* HospitalAdmission.get_non_duplicate_notes: self.notes_by_id is read
\* before anything is computed.  Past it, notes is the iterator of the
\* stash values: the first pass (the notes in no duplicate set) uses it up,
\* so that no note is left for filter_ans and every duplicate set gives the
\* note of the member the iteration of the set gives first, picks[k]
get_non_duplicate_notes(notes, dup_sets, filter_fn, picks) ==
    IF "notes_by_id" \notin HospitalAdmission_attributes
    THEN [error |-> "AttributeError", value |-> <<>>]
    ELSE IF dup_sets = <<>>
    THEN [error |-> "TypeError", value |-> <<>>]
    ELSE LET dups == UNION {dup_sets[k] : k \in 1..Len(dup_sets)}
             non_dups == SelectSeq(notes, LAMBDA n : n.row_id \notin dups)
             note_of(rid) ==
                 notes[CHOOSE i \in 1..Len(notes) : notes[i].row_id = rid]
         IN [error |-> "none",
             value |-> [i \in 1..Len(non_dups) |->
                           [note |-> non_dups[i], dup |-> FALSE]]
                       \o [k \in 1..Len(dup_sets) |->
                              [note |-> note_of(picks[k]), dup |-> TRUE]]]

\* str(row_id) and int(key): the keys of the note stash are strings
str(n) == <<"str", n>>

int(k) == k[2]

\* self._note_stash.keys(): the key subset, strings, in the order it happens
\* to be iterated
note_stash_keys(a) == [k \in 1..Len(a.keys) |-> str(a.keys[k])]

\* HospitalAdmission.keys: map(int, self._note_stash.keys())
HospitalAdmission_keys(a) ==
    [k \in 1..Len(note_stash_keys(a)) |-> int(note_stash_keys(a)[k])]

\* HospitalAdmission.__contains__: str(row_id) in self.notes_by_id, an
\* attribute the class does not define
HospitalAdmission_contains(a, rid) ==
    IF "notes_by_id" \notin HospitalAdmission_attributes
    THEN [error |-> "AttributeError", value |-> <<>>]
    ELSE [error |-> "none",
          value |-> \E k \in 1..Len(note_stash_keys(a)) :
                       note_stash_keys(a)[k] = str(rid)]

\* HospitalAdmission.__len__: len(self._note_stash)
HospitalAdmission_len(a) == Len(note_stash_keys(a))

\* an admission is loaded from the database
LoadAdmission(d, h, keys) ==
    /\ pc = "init"
    /\ keys \in Orders(create_note_stash(d, h))
    /\ pc' = "adm"
    /\ db' = d
    /\ adm' = HospitalAdmissionDbStash_load(d, h, keys)
    /\ UNCHANGED <<args, view, error>>
    /\ UNCHANGED note_vars

\* the admission is loaded again, now from the cache
ReloadAdmission(keys) ==
    /\ pc = "adm"
    /\ adm.source = "db"
    /\ keys \in Orders(create_note_stash(db, adm.hadm_id))
    /\ adm' = HospitalAdmissionDbFactoryStash_load(adm, db, keys)
    /\ UNCHANGED <<pc, args, view, error, db>>
    /\ UNCHANGED note_vars

\* the result of an accessor of the admission
Accessed(name, arg, result) ==
    /\ pc' = name
    /\ args' = arg
    /\ view' = result.value
    /\ error' = result.error
    /\ UNCHANGED <<db, adm>>
    /\ UNCHANGED note_vars

Notes ==
    /\ pc = "adm"
    /\ Accessed("notes", <<>>, Returned(HospitalAdmission_notes(adm, db)))

IterAdmission ==
    /\ pc = "adm"
    /\ Accessed("iter", <<>>, Returned(HospitalAdmission_iter(adm, db)))

GetItem(rid) ==
    /\ pc = "adm"
    /\ Accessed("getitem", <<rid>>, HospitalAdmission_getitem(adm, db, rid))

NotesByCategory ==
    /\ pc = "adm"
    /\ Accessed("notes_by_category", <<>>,
                Returned(HospitalAdmission_notes_by_category(adm, db)))

GetDuplicateNotes(text_start) ==
    /\ pc = "adm"
    /\ Accessed("get_duplicate_notes", text_start,
                Returned(get_duplicate_notes(HospitalAdmission_notes(adm, db),
                                             text_start)))

GetNonDuplicateNotes(text_start, filter_fn) ==
    /\ pc = "adm"
    /\ LET notes == HospitalAdmission_notes(adm, db)
           dup_sets == get_duplicate_notes(notes, text_start)
       IN \E picks \in {p \in [1..Len(dup_sets) -> 1..MaxNotes] :
                           \A k \in 1..Len(dup_sets) : p[k] \in dup_sets[k]} :
             Accessed("get_non_duplicate_notes",
                      [dup_sets |-> dup_sets, filter_fn |-> filter_fn],
                      get_non_duplicate_notes(notes, dup_sets, filter_fn,
                                              picks))

Keys ==
    /\ pc = "adm"
    /\ Accessed("keys", <<>>, Returned(HospitalAdmission_keys(adm)))

ContainsRowId(rid) ==
    /\ pc = "adm"
    /\ Accessed("contains", <<rid>>, HospitalAdmission_contains(adm, rid))

LenAdmission ==
    /\ pc = "adm"
    /\ Accessed("len", <<>>, Returned(HospitalAdmission_len(adm)))

TEXT_STARTS == {<<>>, <<1>>}

NextAdm ==
    \/ /\ pc = "init"
       /\ \E d \in Databases :
             \E keys \in Orders(create_note_stash(d, ADM_HADM_ID)) :
                LoadAdmission(d, ADM_HADM_ID, keys)
    \/ /\ pc = "adm"
       /\ \E keys \in Orders(create_note_stash(db, adm.hadm_id)) :
             ReloadAdmission(keys)
    \/ Notes
    \/ IterAdmission
    \/ \E rid \in 1..MaxNotes : GetItem(rid)
    \/ NotesByCategory
    \/ \E text_start \in TEXT_STARTS : GetDuplicateNotes(text_start)
    \/ \E text_start \in TEXT_STARTS : \E filter_fn \in FILTER_FNS :
          GetNonDuplicateNotes(text_start, filter_fn)
    \/ Keys
    \/ \E rid \in 1..MaxNotes : ContainsRowId(rid)
    \/ LenAdmission

SpecAdm == Init /\ [][NextAdm]_vars

----------------------------------------------------------------------------
(* Properties of a hospital admission                                      *)

ADM_STATES ==
    {"adm", "notes", "iter", "getitem", "notes_by_category",
     "get_duplicate_notes", "get_non_duplicate_notes"}

\* C16: every note of an admission, loaded from the database or loaded
\* again from the cache, has the hadm_id of the admission: the notes of
\* its stash, and those that notes, the iteration, adm[row_id] and
\* notes_by_category return
C16_NotesOfAdmission ==
    /\ pc \in ADM_STATES =>
          \A i \in 1..Len(HospitalAdmission_notes(adm, db)) :
              HospitalAdmission_notes(adm, db)[i].hadm_id = adm.hadm_id
    /\ pc \in {"notes", "iter", "getitem"} =>
          \A i \in 1..Len(view) : view[i].hadm_id = adm.hadm_id
    /\ pc = "notes_by_category" =>
          \A c \in DOMAIN view : \A i \in 1..Len(view[c]) :
              view[c][i].hadm_id = adm.hadm_id

\* C16 witness: the notes by category of an admission loaded again from
\* the cache, two categories of them, the table having a note of another
\* admission
C16_Witness ==
    /\ pc = "notes_by_category"
    /\ adm.source = "cache"
    /\ \E i \in 1..Len(db) : db[i].hadm_id # adm.hadm_id
    /\ Cardinality(DOMAIN view) = 2

\* the first member of a duplicate set filter_fn accepts, in the order of
\* notes, if there is one
FirstAccepted(notes, ds, filter_fn) ==
    LET A == {i \in 1..Len(notes) :
                 /\ notes[i].row_id \in ds
                 /\ filter_fn # "None" => filter_accepts(filter_fn, notes, i)}
    IN IF A = {} THEN <<>>
       ELSE <<notes[CHOOSE i \in A : \A j \in A : i <= j]>>

\* C17: get_non_duplicate_notes raises nothing and returns every note in
\* no duplicate set with False and, for each duplicate set, one note of
\* the set with True: the first filter_fn accepts if it accepts one
C17_NonDuplicateNotes ==
    pc = "get_non_duplicate_notes" =>
        /\ error = "none"
        /\ LET notes == HospitalAdmission_notes(adm, db)
               dup_sets == args.dup_sets
               dups == UNION {dup_sets[k] : k \in 1..Len(dup_sets)}
               Pairs(b) == {i \in 1..Len(view) : view[i].dup = b}
           IN /\ {view[i].note : i \in Pairs(FALSE)}
                    = {notes[i] : i \in {j \in 1..Len(notes) :
                                            notes[j].row_id \notin dups}}
              /\ Cardinality(Pairs(TRUE)) = Len(dup_sets)
              /\ \A k \in 1..Len(dup_sets) :
                    \E i \in Pairs(TRUE) :
                       /\ view[i].note.row_id \in dup_sets[k]
                       /\ FirstAccepted(notes, dup_sets[k], args.filter_fn)
                             \in {<<>>, <<view[i].note>>}

----------------------------------------------------------------------------
(* tokenizer.py: the MimicTokenDecorator.  The norm of a token is a        *)
(* sequence of characters.                                                 *)

MaxNormPieces == 3

\* FeatureToken.NONE
NONE == "-<N>-"

MASK_TOKEN_FEATURE == "mask"

SEPARATOR_TOKEN_FEATURE == "separator"

UNKNOWN_ENTITY == <<"<", "U", "N", "K", "N", "O", "W", "N", ">">>

FIRST_NAME == <<"F", "i", "r", "s", "t", " ", "N", "a", "m", "e">>

LAST_NAME == <<"L", "a", "s", "t", " ", "N", "a", "m", "e">>

FIRSTNAME == <<"F", "I", "R", "S", "T", "N", "A", "M", "E">>

LASTNAME == <<"L", "A", "S", "T", "N", "A", "M", "E">>

DATE == <<"D", "A", "T", "E">>

\* the pieces the norms of the tokens are made of
NormPieces ==
    {<<"[", "*", "*">>, <<"*", "*", "]">>, FIRST_NAME, LAST_NAME,
     <<"2", "1", "0", "1", "-", "1", "-", "2">>, <<"3">>, <<"x">>, <<"\n">>,
     <<"-", "-", "-", "-", "-">>, <<"*", "*", "*", "*", "*">>,
     <<"_", "_", "_", "_">>, <<"_">>}

Norms ==
    {Flatten(ps) : ps \in UNION {[1..n -> NormPieces] : n \in 0..MaxNormPieces}}

\* offset just past the longest run of characters other than the asterisk
\* starting at offset i
RECURSIVE NotStarEnd(_, _)
NotStarEnd(t, i) ==
    IF i < Len(t) /\ t[i + 1] # "*" THEN NotStarEnd(t, i + 1) ELSE i

\* MASK_REGEX.match(norm), \[\*\*([^\*]+)\*\*\] at the start of the norm:
\* whether it matches and its group 1
MASK_REGEX_match(norm) ==
    LET e == NotStarEnd(norm, 3)
    IN IF /\ LitAt(norm, 0, <<"[", "*", "*">>, FALSE)
          /\ e > 3
          /\ LitAt(norm, e, <<"*", "*", "]">>, FALSE)
       THEN [matched |-> TRUE, group1 |-> Slice(norm, 3, e)]
       ELSE [matched |-> FALSE, group1 |-> <<>>]

\* SEP_REGEX.match(norm), (_{5,}|[*]{5,}|[-]{5,}) at the start of the norm
SEP_REGEX_match(norm) ==
    \E c \in {"_", "*", "-"} :
        Len(norm) >= 5 /\ \A i \in 1..5 : norm[i] = c

\* ^21\d{2}-\d{1,2}-\d{1,2}$ on a mask value; $ also matches before a last
\* newline
DATE_REGEX_match(val) ==
    \E m \in 1..2 : \E d \in 1..2 :
        LET e == 4 + 1 + m + 1 + d
        IN /\ LitAt(val, 0, <<"2", "1">>, FALSE)
           /\ Len(val) >= e
           /\ \A i \in {3, 4} : val[i] \in DigitChars
           /\ val[5] = "-"
           /\ \A i \in 6..(5 + m) : val[i] \in DigitChars
           /\ val[6 + m] = "-"
           /\ \A i \in (7 + m)..e : val[i] \in DigitChars
           /\ \/ Len(val) = e
              \/ Len(val) = e + 1 /\ val[e + 1] = "\n"

\* the default token_entities, compiled: the pattern and its replacement
token_entities ==
    <<[pat |-> "^First Name", repl |-> FIRSTNAME],
      [pat |-> "^Last Name", repl |-> LASTNAME],
      [pat |-> "^21\\d{2}-\\d{1,2}-\\d{1,2}$", repl |-> DATE]>>

\* onto_mapping of the default token_entities
onto_mapping ==
    (FIRSTNAME :> "PERSON") @@ (LASTNAME :> "PERSON") @@ (DATE :> "DATE")

\* regex.match(mask_val) of a token entity pattern
entity_match(pat, val) ==
    CASE pat = "^First Name" -> LitAt(val, 0, FIRST_NAME, FALSE)
      [] pat = "^Last Name" -> LitAt(val, 0, LAST_NAME, FALSE)
      [] pat = "^21\\d{2}-\\d{1,2}-\\d{1,2}$" -> DATE_REGEX_match(val)

\* the configurations of token_replacements: none, or two literal patterns
TOKEN_REPLACEMENTS ==
    {<<>>,
     <<[pat |-> <<"-">>, repl |-> <<"D", "A", "S", "H">>],
       [pat |-> <<"x">>, repl |-> <<"X">>],
       [pat |-> <<"x", "\n">>, repl |-> <<"N", "L">>]>>}

\* the index of the first entry of a sequence that satisfies Test, 0 if
\* none does: for ... if ...: break
FirstIndex(seq, Test(_)) ==
    IF \E i \in 1..Len(seq) : Test(seq[i])
    THEN CHOOSE i \in 1..Len(seq) :
            Test(seq[i]) /\ \A j \in 1..(i - 1) : ~Test(seq[j])
    ELSE 0

\* a faulty replace_norm: the replacements are tried on every token
replace_norm_always(matched, norm, token_replacements) ==
    LET k == FirstIndex(token_replacements,
                        LAMBDA r : LitAt(norm, 0, r.pat, FALSE))
    IN IF k = 0 THEN norm ELSE token_replacements[k].repl

\* the second loop of decorate: the norm of a token no pattern of _REGEXES
\* matched becomes the replacement of the first token_replacements
\* pattern that matches it
replace_norm(matched, norm, token_replacements) ==
    LET k == FirstIndex(token_replacements,
                        LAMBDA r : LitAt(norm, 0, r.pat, FALSE))
    IN IF matched \/ k = 0 THEN norm ELSE token_replacements[k].repl

\* MimicTokenDecorator.decorate: the token with its norm, mimic_ and onto_
decorate(norm, token_replacements) ==
    LET mask == MASK_REGEX_match(norm)
        k == FirstIndex(token_entities,
                        LAMBDA e : entity_match(e.pat, mask.group1))
    IN IF mask.matched
       THEN [norm |-> replace_norm(TRUE,
                         IF k = 0 THEN UNKNOWN_ENTITY
                         ELSE token_entities[k].repl, token_replacements),
             mimic_ |-> MASK_TOKEN_FEATURE,
             onto_ |-> IF k = 0 THEN NONE
                       ELSE IF token_entities[k].repl \in DOMAIN onto_mapping
                       THEN onto_mapping[token_entities[k].repl] ELSE NONE]
       ELSE IF SEP_REGEX_match(norm)
       THEN [norm |-> replace_norm(TRUE, norm, token_replacements),
             mimic_ |-> SEPARATOR_TOKEN_FEATURE, onto_ |-> NONE]
       ELSE [norm |-> replace_norm(FALSE, norm, token_replacements),
             mimic_ |-> NONE, onto_ |-> NONE]

\* a token is decorated
Decorate(norm, token_replacements) ==
    /\ pc = "init"
    /\ pc' = "decorated"
    /\ args' = [norm |-> norm, token_replacements |-> token_replacements]
    /\ view' = decorate(norm, token_replacements)
    /\ UNCHANGED <<error, db, adm>>
    /\ UNCHANGED note_vars

NextTokens ==
    /\ pc = "init"
    /\ \E norm \in Norms : \E token_replacements \in TOKEN_REPLACEMENTS :
          Decorate(norm, token_replacements)

SpecTokens == Init /\ [][NextTokens]_vars

\* the replacement of the first token_entities pattern that matches the
\* mask value, <UNKNOWN> when none does
FirstEntity(val) ==
    IF \E i \in 1..Len(token_entities) : entity_match(token_entities[i].pat, val)
    THEN token_entities[
            CHOOSE i \in 1..Len(token_entities) :
                /\ entity_match(token_entities[i].pat, val)
                /\ \A j \in 1..(i - 1) :
                      ~entity_match(token_entities[j].pat, val)].repl
    ELSE UNKNOWN_ENTITY

\* C18: after decorate the token has mimic_ and onto_ set; mimic_ is
\* 'mask' if the norm matches the mask pattern, else 'separator' if it
\* matches the separator pattern, else NONE; the norm of a mask token is
\* the replacement of the first matching token_entities pattern or
\* <UNKNOWN>; the norm of a separator token is unchanged; the
\* token_replacements are applied only to the other tokens
C18_Decorated ==
    pc = "decorated" =>
        LET norm == args.norm
            repls == args.token_replacements
            mask == MASK_REGEX_match(norm)
            sep == SEP_REGEX_match(norm)
        IN /\ DOMAIN view = {"norm", "mimic_", "onto_"}
           /\ view.onto_ \in {NONE, "PERSON", "DATE"}
           /\ view.mimic_ = IF mask.matched THEN MASK_TOKEN_FEATURE
                            ELSE IF sep THEN SEPARATOR_TOKEN_FEATURE
                            ELSE NONE
           /\ mask.matched => view.norm = FirstEntity(mask.group1)
           /\ ~mask.matched /\ sep => view.norm = norm
           /\ ~mask.matched /\ ~sep =>
                 \/ /\ \A i \in 1..Len(repls) :
                          ~LitAt(norm, 0, repls[i].pat, FALSE)
                    /\ view.norm = norm
                 \/ \E i \in 1..Len(repls) :
                       /\ LitAt(norm, 0, repls[i].pat, FALSE)
                       /\ \A j \in 1..(i - 1) :
                             ~LitAt(norm, 0, repls[j].pat, FALSE)
                       /\ view.norm = repls[i].repl

\* a separator token that a token replacement pattern matches has been
\* decorated and kept its norm
C18_Witness ==
    /\ pc = "decorated"
    /\ args.token_replacements # <<>>
    /\ view.mimic_ = SEPARATOR_TOKEN_FEATURE
    /\ args.norm[1] = "-"
    /\ view.norm = args.norm

----------------------------------------------------------------------------
(* parafac.py: the ChunkingParagraphFactory.  A document is a sequence of  *)
(* sentences, a sentence a sequence of tokens, a token its text, its norm  *)
(* and its mimic_ feature.                                                 *)

MaxSents == 2

MaxListSents == 3

\* a parsed token as the MimicTokenDecorator leaves it
Token(t) ==
    LET decorated == decorate(t, <<>>)
    IN [text |-> t, norm |-> decorated.norm, mimic_ |-> decorated.mimic_]

WORD_TOKEN == Token(<<"f">>)

MASK_TOKEN == Token(<<"[", "*", "*", "x", "*", "*", "]">>)

SEP_TOKEN == Token(<<"-", "-", "-", "-", "-">>)

NEWLINE_TOKEN == Token(<<"\n">>)

PERIOD_TOKEN == Token(<<".">>)

ITEM_TOKEN == Token(<<"1", ".">>)

\* the sentences of the paragraphs
ParaSentences ==
    {<<WORD_TOKEN>>, <<WORD_TOKEN, NEWLINE_TOKEN, MASK_TOKEN>>,
     <<SEP_TOKEN, NEWLINE_TOKEN>>, <<PERIOD_TOKEN>>,
     <<WORD_TOKEN, SEP_TOKEN, MASK_TOKEN, WORD_TOKEN>>}

ParaDocs == UNION {[1..n -> ParaSentences] : n \in 0..MaxSents}

SHORT_ITEM == <<ITEM_TOKEN>>

LONG_ITEM == <<ITEM_TOKEN, WORD_TOKEN, WORD_TOKEN>>

\* the documents the ListItemChunker gives: short list sentences, the last
\* of which may be a long one
ListDocs ==
    {[i \in 1..n |-> SHORT_ITEM] : n \in 0..MaxListSents}
        \cup {[i \in 1..n |-> IF i = n THEN LONG_ITEM ELSE SHORT_ITEM] :
                 n \in 1..MaxListSents}

\* a paragraph of the ParagraphChunker with what the ListItemChunker finds
\* in it
Paragraphs == [doc : ParaDocs, list_doc : ListDocs]

\* the paragraphs that may follow the first one of a section
TailParagraphs ==
    {[doc |-> <<<<WORD_TOKEN>>>>, list_doc |-> <<>>]}

ParagraphSeqs ==
    {<<p>> : p \in Paragraphs}
        \cup {<<p, q>> : p \in Paragraphs, q \in TailParagraphs}

\* the configurations of the factory
ParaConfigs ==
    [min_sent_len : 0..2, min_list_norm_matches : 0..MaxListSents,
     max_sent_list_len : {2, 3, 7},
     filter_sent_text : {{}, {<<".">>}}]

\* TokenContainer.norm: the norms of the tokens joined by a space
RECURSIVE sent_norm(_)
sent_norm(s) ==
    IF s = <<>> THEN <<>>
    ELSE IF Len(s) = 1 THEN s[1].norm
    ELSE s[1].norm \o <<" ">> \o sent_norm(Tail(s))

\* FeatureDocument.token_len
RECURSIVE doc_token_len(_)
doc_token_len(doc) ==
    IF doc = <<>> THEN 0 ELSE Len(Head(doc)) + doc_token_len(Tail(doc))

\* filter_toks of _norm_doc
filter_toks(t) ==
    t.mimic_ # SEPARATOR_TOKEN_FEATURE /\ Len(strip(t.norm)) > 0

\* filter_sents of _norm_doc
filter_sents(s, cfg) ==
    Len(s) > cfg.min_sent_len /\ sent_norm(s) \notin cfg.filter_sent_text

\* ChunkingParagraphFactory._norm_list with the document of the chunker
norm_list(doc, list_doc, cfg) ==
    IF Len(list_doc) > 0
    THEN LET max_sent_len ==
                 Max({Len(sent_norm(list_doc[i])) : i \in 1..Len(list_doc)})
         IN IF /\ Len(list_doc) > cfg.min_list_norm_matches
               /\ max_sent_len < cfg.max_sent_list_len
            THEN list_doc ELSE doc
    ELSE doc

\* ChunkingParagraphFactory._clone_norm_doc
clone_norm_doc(doc) ==
    [i \in 1..Len(doc) |->
        [j \in 1..Len(doc[i]) |-> [doc[i][j] EXCEPT !.norm = doc[i][j].text]]]

\* the first statements of _norm_doc: the tokens of every sentence are
\* filtered
filter_doc_toks(doc) ==
    [i \in 1..Len(doc) |-> SelectSeq(doc[i], filter_toks)]

\* ChunkingParagraphFactory._norm_doc: <<>> for None, else the document
norm_doc(para, cfg) ==
    LET toks == filter_doc_toks(para.doc)
        sents == SelectSeq(toks, LAMBDA s : filter_sents(s, cfg))
        chunked == IF cfg.min_list_norm_matches > 0
                   THEN norm_list(sents, para.list_doc, cfg) ELSE sents
        doc == clone_norm_doc(chunked)
    IN IF doc_token_len(doc) > 0 THEN <<doc>> ELSE <<>>

\* filter(lambda d: d is not None, map(lambda d: _norm_doc(parent, d), pc))
RECURSIVE norm_docs(_, _)
norm_docs(paras, cfg) ==
    IF paras = <<>> THEN <<>>
    ELSE norm_doc(Head(paras), cfg) \o norm_docs(Tail(paras), cfg)

\* ChunkingParagraphFactory.create: the paragraph documents of a section
\* whose document the ParagraphChunker splits into paras
ChunkingParagraphFactory_create(paras, cfg) ==
    IF \A i \in 1..Len(paras) : Len(paras[i].doc) = 0 THEN <<>>
    ELSE norm_docs(paras, cfg)

\* the paragraphs of a section are created
CreateParagraphs(paras, cfg) ==
    /\ pc = "init"
    /\ pc' = "paragraphs"
    /\ args' = [paras |-> paras, cfg |-> cfg]
    /\ view' = ChunkingParagraphFactory_create(paras, cfg)
    /\ UNCHANGED <<error, db, adm>>
    /\ UNCHANGED note_vars

NextPara ==
    /\ pc = "init"
    /\ \E paras \in ParagraphSeqs : \E cfg \in ParaConfigs :
          CreateParagraphs(paras, cfg)

SpecPara == Init /\ [][NextPara]_vars

\* the document of a paragraph without list folding, with the sentences
\* Keep accepts
Unfolded(para, Keep(_)) ==
    clone_norm_doc(SelectSeq(filter_doc_toks(para.doc), Keep))

\* the paragraph documents when the list document replaces the document of
\* a paragraph exactly when Fold holds of it
FoldedWhen(paras, cfg, Fold(_)) ==
    Flatten([i \in 1..Len(paras) |->
        LET doc == IF Fold(paras[i]) THEN clone_norm_doc(paras[i].list_doc)
                   ELSE Unfolded(paras[i], LAMBDA s : filter_sents(s, cfg))
        IN IF doc_token_len(doc) > 0 THEN <<doc>> ELSE <<>>])

\* the longest folded sentence is shorter than max_sent_list_len
ShortListSents(para, cfg) ==
    \A i \in 1..Len(para.list_doc) :
        Len(sent_norm(para.list_doc[i])) < cfg.max_sent_list_len

\* C19: with list folding enabled and list sentences found, the
\* list-chunked document replaces the paragraph exactly when the number of
\* list sentences is at least min_list_norm_matches and the longest of
\* them is shorter than max_sent_list_len
C19_FoldAtLeast ==
    pc = "paragraphs" /\ args.cfg.min_list_norm_matches > 0
        /\ (\A i \in 1..Len(args.paras) : Len(args.paras[i].doc) > 0) =>
        view = FoldedWhen(args.paras, args.cfg,
                   LAMBDA para :
                       /\ Len(para.list_doc) > 0
                       /\ Len(para.list_doc) >= args.cfg.min_list_norm_matches
                       /\ ShortListSents(para, args.cfg))

\* the paragraph documents without list folding when a sentence is kept
\* exactly when Keep holds of it
KeptWhen(paras, Keep(_)) ==
    Flatten([i \in 1..Len(paras) |->
        LET doc == Unfolded(paras[i], Keep)
        IN IF doc_token_len(doc) > 0 THEN <<doc>> ELSE <<>>])

\* C20: without list folding, a sentence is dropped exactly when its
\* token count after the separator and empty tokens are removed is below
\* min_sent_len or its norm is in filter_sent_text, and a paragraph
\* document left with no token is not yielded
C20_DropBelow ==
    pc = "paragraphs" /\ args.cfg.min_list_norm_matches = 0
        /\ (\E i \in 1..Len(args.paras) : Len(args.paras[i].doc) > 0) =>
        view = KeptWhen(args.paras,
                   LAMBDA s :
                       ~(\/ Len(s) < args.cfg.min_sent_len
                         \/ sent_norm(s) \in args.cfg.filter_sent_text))

\* what the code does instead: the list document replaces the paragraph
\* only when there are more list sentences than min_list_norm_matches
FoldsAboveThreshold ==
    pc = "paragraphs" /\ args.cfg.min_list_norm_matches > 0
        /\ (\A i \in 1..Len(args.paras) : Len(args.paras[i].doc) > 0) =>
        view = FoldedWhen(args.paras, args.cfg,
                   LAMBDA para :
                       /\ Len(para.list_doc) > args.cfg.min_list_norm_matches
                       /\ ShortListSents(para, args.cfg))

\* what the code does instead: a sentence of min_sent_len tokens is
\* dropped as well
DropsUpToMinimum ==
    pc = "paragraphs" /\ args.cfg.min_list_norm_matches = 0
        /\ (\E i \in 1..Len(args.paras) : Len(args.paras[i].doc) > 0) =>
        view = KeptWhen(args.paras,
                   LAMBDA s :
                       ~(\/ Len(s) <= args.cfg.min_sent_len
                         \/ sent_norm(s) \in args.cfg.filter_sent_text))

\* three short list sentences were found with a threshold of three and the
\* paragraph was not folded
ThreeItemsNotFolded ==
    /\ pc = "paragraphs"
    /\ args.cfg.min_list_norm_matches = 3
    /\ args.cfg.max_sent_list_len = 7
    /\ Len(args.paras) = 1
    /\ args.paras[1].list_doc = <<SHORT_ITEM, SHORT_ITEM, SHORT_ITEM>>
    /\ view # <<clone_norm_doc(args.paras[1].list_doc)>>

----------------------------------------------------------------------------
(* parafac.py: the WhitespaceParagraphFactory                              *)

MaxBodyLen == 5

BodyAlphabet == {"a", " ", "\n", "."}

BodyTexts == UNION {[1..n -> BodyAlphabet] : n \in 0..MaxBodyLen}

\* what precedes the body of the section in the note text
BodyPrefixes == {<<>>, <<"H", ":">>}

\* the characters of [\s.]
SEPARATOR_CLASS == WhitespaceChars \cup {"."}

\* SEPARATOR_REGEX (\n[\s.]*\n, greedy) tried at offset i: the end of the
\* match, -1 when there is none
SEPARATOR_REGEX_match(t, i) ==
    IF i < Len(t) /\ t[i + 1] = "\n"
    THEN LET r == RunEnd(t, i + 1, SEPARATOR_CLASS)
             ends == {j \in (i + 2)..r : t[j] = "\n"}
         IN IF ends = {} THEN -1 ELSE Max(ends)
    ELSE -1

\* SEPARATOR_REGEX.finditer from offset pos on
RECURSIVE SEPARATOR_REGEX_finditer(_, _)
SEPARATOR_REGEX_finditer(t, pos) ==
    IF pos >= Len(t) THEN <<>>
    ELSE LET e == SEPARATOR_REGEX_match(t, pos)
         IN IF e = -1 THEN SEPARATOR_REGEX_finditer(t, pos + 1)
            ELSE <<LexicalSpan(pos, e)>> \o SEPARATOR_REGEX_finditer(t, e)

\* faulty marks: the offsets of the matches are not moved to the body
marks_no_offset(body_text, bspan) ==
    LET ms == SEPARATOR_REGEX_finditer(body_text, 0)
    IN <<bspan.begin>>
           \o Flatten([i \in 1..Len(ms) |-> <<ms[i].begin, ms[i].end>>])
           \o <<bspan.end>>

\* the marks of create: the begin of the body, the start and the end of
\* every separator, the end of the body
marks(body_text, bspan) ==
    LET ms == SEPARATOR_REGEX_finditer(body_text, 0)
    IN <<bspan.begin>>
           \o Flatten([i \in 1..Len(ms) |->
                          <<ms[i].begin + bspan.begin,
                            ms[i].end + bspan.begin>>])
           \o <<bspan.end>>

\* for beg in mi: par_spans.append(LexicalSpan(beg, next(mi))): a mark
\* without a following one stops the generator with an error
par_spans(mks) ==
    [error |-> IF Len(mks) % 2 = 1 THEN "RuntimeError" ELSE "none",
     spans |-> [i \in 1..(Len(mks) \div 2) |->
                   LexicalSpan(mks[2 * i - 1], mks[2 * i])]]

\* WhitespaceParagraphFactory.create: the spans of the yielded paragraphs
WhitespaceParagraphFactory_create(t, bspan) ==
    LET ps == par_spans(marks(Slice(t, bspan.begin, bspan.end), bspan))
    IN IF ps.error # "none" THEN [ps EXCEPT !.spans = <<>>] ELSE ps

\* the paragraphs of a section are created by whitespace
CreateWhitespace(prefix, body_text) ==
    /\ pc = "init"
    /\ pc' = "whitespace"
    /\ text' = prefix \o body_text
    /\ args' = [body_span |->
                   LexicalSpan(Len(prefix), Len(prefix) + Len(body_text))]
    /\ view' = WhitespaceParagraphFactory_create(text', args'.body_span)
    /\ UNCHANGED <<row_id, hadm_id, category, matches, sections,
                   sections_persisted, seg_calls, filter_empty,
                   gap_sections, error, db, adm>>

NextWhitespace ==
    /\ pc = "init"
    /\ \E prefix \in BodyPrefixes : \E body_text \in BodyTexts :
          CreateWhitespace(prefix, body_text)

SpecWhitespace == Init /\ [][NextWhitespace]_vars

\* a newline, any whitespace or periods, a newline somewhere in t
HasSeparator(t) ==
    \E i \in 1..Len(t) : \E j \in (i + 1)..Len(t) :
        /\ t[i] = "\n"
        /\ t[j] = "\n"
        /\ \A k \in (i + 1)..(j - 1) : t[k] \in SEPARATOR_CLASS

\* C21: with k separator matches in the body, create yields k+1
\* paragraphs whose spans run from the begin of the body to the first
\* separator, from each separator to the next and from the last one to the
\* end of the body; they are ordered, disjoint, inside the body span and
\* hold no separator, and the marks pair up
C21_WhitespaceParagraphs ==
    pc = "whitespace" =>
        LET bspan == args.body_span
            seps == SEPARATOR_REGEX_finditer(Slice(text, bspan.begin,
                                                   bspan.end), 0)
            k == Len(seps)
            spans == view.spans
        IN /\ view.error = "none"
           /\ Len(spans) = k + 1
           /\ spans[1].begin = bspan.begin
           /\ spans[k + 1].end = bspan.end
           /\ \A i \in 1..k :
                 /\ spans[i].end = bspan.begin + seps[i].begin
                 /\ spans[i + 1].begin = bspan.begin + seps[i].end
                 /\ spans[i].end <= spans[i + 1].begin
           /\ \A i \in 1..(k + 1) :
                 /\ bspan.begin <= spans[i].begin
                 /\ spans[i].begin <= spans[i].end
                 /\ spans[i].end <= bspan.end
                 /\ ~HasSeparator(Slice(text, spans[i].begin, spans[i].end))

\* a body that does not start the note and holds two separators gave three
\* paragraphs
C21_Witness ==
    /\ pc = "whitespace"
    /\ args.body_span.begin > 0
    /\ Len(view.spans) = 3
    /\ view.spans[2].begin < view.spans[2].end

----------------------------------------------------------------------------
(* The bodies of the sections of the patterns that end a body at a run of  *)
(* blank lines                                                             *)

BLANK_LINE_CATEGORIES ==
    {"Discharge summary", "Nursing/other", "Echo", "Radiology"}

\* the body of a section made of a match starts after the header and its
\* colon and lies in the note text
BodyAfterHeader(sec) ==
    /\ sec.header_spans[1].end < sec.body_span.begin
    /\ text[sec.header_spans[1].end + 1] = ":"
    /\ 0 <= sec.body_span.begin
    /\ sec.body_span.begin < sec.body_span.end
    /\ sec.body_span.end <= Len(text)

\* the body stops where the blank lines that end it start
BodyBeforeBlankLines(sec) ==
    /\ body(text, sec)[span_len(sec.body_span)] # "\n"
    /\ NL2At(text \o NL2, sec.body_span.end)

\* C22: every section made of a match of a pattern that ends the body at
\* a run of blank lines has a body that excludes the header and its colon,
\* lies in the note text though the text matched has two newlines
\* appended, does not end with a newline and holds none of the blank lines
\* that end it
C22_BodyExcludesBlankLines ==
    (pc \in {"note", "gap"} /\ category \in BLANK_LINE_CATEGORIES
        /\ Len(Survivors) >= 1) =>
        \A i \in 1..Len(sections) :
            BodyAfterHeader(sections[i]) /\ BodyBeforeBlankLines(sections[i])

\* what the code does instead: the body lies in the note text after the
\* header and is followed by blank lines, but a body of one character can
\* be the first newline of a run of three
BodyOneNewlineOrNone ==
    (pc \in {"note", "gap"} /\ category \in BLANK_LINE_CATEGORIES
        /\ Len(Survivors) >= 1) =>
        \A i \in 1..Len(sections) :
            /\ BodyAfterHeader(sections[i])
            /\ NL2At(text \o NL2, sections[i].body_span.end)
            /\ ~BodyBeforeBlankLines(sections[i]) =>
                  /\ body(text, sections[i]) = <<"\n">>
                  /\ category \in {"Discharge summary", "Nursing/other"}

----------------------------------------------------------------------------
(* Section.is_empty and the gaps filter_empty drops                        *)

\* the holes the sections of the note leave in its text
NoteGaps == gaps(Lexspans(sections), Len(text))

\* the text of a span holds whitespace only
Blank(g) == \A i \in Offsets(g) : text[i + 1] \in WhitespaceChars

\* a gap section was made of the hole g
GapKept(g) ==
    \E i \in 1..Len(gap_sections) :
        /\ IsGapSection(gap_sections[i])
        /\ gap_sections[i].header_spans = <<>>
        /\ gap_sections[i].body_span = g

\* C23 as the specification states it: a headerless section is empty only
\* when its body has no character, so gap filling with filter_empty keeps
\* every hole that has at least one character
C23_EmptyIsZeroLength ==
    pc = "gap" /\ filter_empty =>
        \A k \in 1..Len(NoteGaps) :
            span_len(NoteGaps[k]) > 0 => GapKept(NoteGaps[k])

\* C23 amended: a section is empty exactly when it has no header span and
\* its body holds nothing but whitespace; gap filling with filter_empty
\* drops exactly the holes of whitespace and keeps the others, and
\* without filter_empty keeps every hole
C23_EmptyIsBlank ==
    pc = "gap" =>
        /\ \A k \in 1..Len(NoteGaps) :
              GapKept(NoteGaps[k]) <=> ~(filter_empty /\ Blank(NoteGaps[k]))
        /\ \A i \in 1..Len(gap_sections) :
              /\ is_empty(text, gap_sections[i])
                    <=> /\ gap_sections[i].header_spans = <<>>
                        /\ Blank(gap_sections[i].body_span)
              /\ filter_empty /\ IsGapSection(gap_sections[i])
                    => ~is_empty(text, gap_sections[i])

\* C23 witness: with filter_empty a hole of whitespace was dropped and a
\* hole with whitespace and other characters was kept
C23_Witness ==
    /\ pc = "gap"
    /\ filter_empty
    /\ \E k \in 1..Len(NoteGaps) :
          /\ span_len(NoteGaps[k]) > 0
          /\ Blank(NoteGaps[k])
          /\ ~GapKept(NoteGaps[k])
    /\ \E k \in 1..Len(NoteGaps) :
          /\ GapKept(NoteGaps[k])
          /\ \E i \in Offsets(NoteGaps[k]) : text[i + 1] \in WhitespaceChars

----------------------------------------------------------------------------
(* adm.py: the NoteDocumentPreemptiveStash.  The state of the stash is     *)
(* kept in view, the arguments and the caches it started from in args.     *)

MaxRows == 3

\* the noteevents tables: MaxRows rows, each of one of two admissions
PrimeDatabases ==
    [1..MaxRows -> {[hadm_id |-> h, category |-> "Echo",
                     text |-> <<"a", "b">>] :
                       h \in {ADM_HADM_ID, OTHER_HADM_ID}}]

\* the row ids asked for: those of the table and one that is not in it
RequestedRowIds == SUBSET (1..(MaxRows + 1))

\* NoteEventPersister.get_hadm_id: None (<<>>) when the row is not in the
\* table
get_hadm_id(d, rid) ==
    IF rid \in 1..Len(d) THEN <<d[rid].hadm_id>> ELSE <<>>

\* a faulty _get_existing_note_row_ids: one cached file is enough
get_existing_note_row_ids_either(note_cont_ids, doc_ids) ==
    note_cont_ids \cup doc_ids

\* NoteDocumentPreemptiveStash._get_existing_note_row_ids
get_existing_note_row_ids(note_cont_ids, doc_ids) ==
    note_cont_ids \cap doc_ids

\* process_keys up to the end of the first loop of prime: the rows to
\* create and their admissions, or the error of a row without admission
ProcessKeys(d, row_ids, note_cont_ids, doc_ids) ==
    /\ pc = "init"
    /\ db' = d
    /\ args' = [row_ids |-> row_ids, note_cont_ids |-> note_cont_ids,
                doc_ids |-> doc_ids]
    /\ LET existing_row_ids ==
               get_existing_note_row_ids(note_cont_ids, doc_ids)
           to_create_row_ids == row_ids \ existing_row_ids
           missing == {r \in to_create_row_ids : get_hadm_id(d, r) = <<>>}
           stash == [row_ids |-> row_ids,
                     to_create_row_ids |-> to_create_row_ids,
                     hadm_ids |-> {}, loaded |-> {}, workers |-> FALSE,
                     processed |-> {}, note_cont_ids |-> note_cont_ids,
                     doc_ids |-> doc_ids]
       IN IF missing # {}
          THEN /\ pc' = "error"
               /\ error' = "RecordNotFoundError"
               /\ view' = stash
          ELSE /\ pc' = "priming"
               /\ error' = "none"
               /\ view' = [stash EXCEPT !.hadm_ids =
                              {get_hadm_id(d, r)[1] : r \in to_create_row_ids}]
    /\ UNCHANGED adm
    /\ UNCHANGED note_vars

\* for hadm_id in hadm_ids: adm = self.adm_factory_stash[hadm_id]
LoadPrimed(h) ==
    /\ pc = "priming"
    /\ h \in view.hadm_ids \ view.loaded
    /\ view' = [view EXCEPT !.loaded = @ \cup {h}]
    /\ UNCHANGED <<pc, args, error, db, adm>>
    /\ UNCHANGED note_vars

\* the end of prime: nothing to do, or super().prime() starts the workers
\* on the row ids of _create_data
EndPrime ==
    /\ pc = "priming"
    /\ view.loaded = view.hadm_ids
    /\ IF Cardinality(view.hadm_ids) = 0
       THEN pc' = "primed" /\ UNCHANGED view
       ELSE pc' = "forked" /\ view' = [view EXCEPT !.workers = TRUE]
    /\ UNCHANGED <<args, error, db, adm>>
    /\ UNCHANGED note_vars

\* _process of a worker on one row id of its chunk: the note is read
\* through its admission and its document parsed, which caches both
Process(r) ==
    /\ pc = "forked"
    /\ r \in view.row_ids \ view.processed
    /\ get_hadm_id(db, r) # <<>>
    /\ view' = [view EXCEPT !.processed = @ \cup {r},
                            !.note_cont_ids = @ \cup {r},
                            !.doc_ids = @ \cup {r}]
    /\ pc' = IF view'.processed = view.row_ids THEN "primed" ELSE "forked"
    /\ UNCHANGED <<args, error, db, adm>>
    /\ UNCHANGED note_vars

NextPrime ==
    \/ /\ pc = "init"
       /\ \E d \in PrimeDatabases : \E row_ids \in RequestedRowIds :
             \E note_cont_ids \in SUBSET (1..MaxRows) :
                \E doc_ids \in SUBSET (1..MaxRows) :
                   ProcessKeys(d, row_ids, note_cont_ids, doc_ids)
    \/ \E h \in {ADM_HADM_ID, OTHER_HADM_ID} : LoadPrimed(h)
    \/ EndPrime
    \/ \E r \in 1..MaxRows : Process(r)

SpecPrime == Init /\ [][NextPrime]_vars

\* the admissions of the rows to create
OwningAdmissions ==
    {db[r].hadm_id : r \in view.to_create_row_ids \cap (1..Len(db))}

----------------------------------------------------------------------------
(* note.py: Section.write.  What is written is a sequence of lines, each   *)
(* a label and a value.                                                    *)

WRITE_TEXT == <<"A", ":", "x", "\n", "y">>

\* the sections written: with or without header, the body empty, of one
\* line or of two
WrittenSections ==
    {Section(0, None, hs, LexicalSpan(2, e), WRITE_TEXT) :
        hs \in {<<>>, <<LexicalSpan(0, 1)>>}, e \in {2, 3, 5}}

\* the limits given to write: none, one, or more than there is
LineLimits == {0, 1, 2}

WriteArgs ==
    [body_line_limit : LineLimits, norm_line_limit : {0, 1},
     par_limit : {0, 1}, sent_limit : {0, 1},
     include_header : BOOLEAN, include_id_name : BOOLEAN,
     include_header_spans : BOOLEAN, include_body_span : BOOLEAN]

\* str.split('\n')
RECURSIVE split_lines(_)
split_lines(t) ==
    IF \A i \in 1..Len(t) : t[i] # "\n" THEN <<t>>
    ELSE LET k == Min({i \in 1..Len(t) : t[i] = "\n"})
         IN <<SubSeq(t, 1, k - 1)>> \o split_lines(SubSeq(t, k + 1, Len(t)))

Line(label, value) == [label |-> label, value |-> value]

\* _write_block: the first limit lines of a text
write_block(t, limit) ==
    LET ls == split_lines(t)
    IN [i \in 1..Min({limit, Len(ls)}) |-> Line("", ls[i])]

\* the last statement of write, under `if not len(self.body) > 0`: the
\* body, the normalized body and the paragraphs; the text of the last two
\* comes from the parsed document and is left out
write_body_parts(sec, t, kw, n_paragraphs) ==
    IF ~(Len(body(t, sec)) > 0)
    THEN (IF kw.body_line_limit > 0
          THEN <<Line("body:", <<>>)>>
                   \o write_block(body(t, sec), kw.body_line_limit)
          ELSE <<>>)
         \o (IF kw.norm_line_limit > 0
             THEN <<Line("normalized:", <<>>)>> ELSE <<>>)
         \o (IF kw.par_limit > 0 /\ kw.sent_limit > 0
             THEN [i \in 1..n_paragraphs |-> Line("paragraph:", <<>>)]
             ELSE <<>>)
    ELSE <<>>

\* Section.write
Section_write(sec, t, kw, n_paragraphs) ==
    (IF kw.include_id_name
     THEN <<Line("id", sec.id), Line("name", sec.name)>> ELSE <<>>)
    \o (IF kw.include_header
        THEN <<Line("header", join_space(headers(t, sec.header_spans)))>>
        ELSE <<>>)
    \o (IF kw.include_header_spans
        THEN <<Line("header spans", sec.header_spans)>> ELSE <<>>)
    \o (IF kw.include_body_span
        THEN <<Line("body span", sec.body_span)>> ELSE <<>>)
    \o write_body_parts(sec, t, kw, n_paragraphs)

\* a section is written; its paragraph factory gives n_paragraphs
\* paragraphs
WriteSection(sec, kw, n_paragraphs) ==
    /\ pc = "init"
    /\ pc' = "written"
    /\ text' = WRITE_TEXT
    /\ sections' = <<sec>>
    /\ args' = kw
    /\ view' = Section_write(sec, WRITE_TEXT, kw, n_paragraphs)
    /\ UNCHANGED <<row_id, hadm_id, category, matches, sections_persisted,
                   seg_calls, filter_empty, gap_sections, error, db, adm>>

NextWrite ==
    /\ pc = "init"
    /\ \E sec \in WrittenSections : \E kw \in WriteArgs :
          \E n_paragraphs \in 1..2 : WriteSection(sec, kw, n_paragraphs)

SpecWrite == Init /\ [][NextWrite]_vars

\* a line with the label was written
Wrote(label) == \E i \in 1..Len(view) : view[i].label = label

\* C25: write writes the body block whenever the body is not empty and
\* body_line_limit > 0, the normalized body whenever the body is not empty
\* and norm_line_limit > 0, the paragraphs when par_limit > 0 and
\* sent_limit > 0, and none of the three for a section with an empty body
C25_WritesBody ==
    pc = "written" =>
        LET non_empty == Len(body(text, sections[1])) > 0
        IN /\ Wrote("body:") <=> non_empty /\ args.body_line_limit > 0
           /\ Wrote("normalized:") <=> non_empty /\ args.norm_line_limit > 0
           /\ Wrote("paragraph:") <=>
                 non_empty /\ args.par_limit > 0 /\ args.sent_limit > 0

\* what the code does instead: the three are written only for a section
\* whose body is empty
WritesBodyOnlyWhenEmpty ==
    pc = "written" =>
        LET empty == Len(body(text, sections[1])) = 0
        IN /\ Wrote("body:") <=> empty /\ args.body_line_limit > 0
           /\ Wrote("normalized:") <=> empty /\ args.norm_line_limit > 0
           /\ Wrote("paragraph:") <=>
                 empty /\ args.par_limit > 0 /\ args.sent_limit > 0

----------------------------------------------------------------------------
(* note.py: SectionContainer.write_by_format                               *)

\* the members of the NoteFormat enumeration
NoteFormat ==
    {"text", "raw", "verbose", "summary", "json", "yaml", "markdown"}

\* the default of the note_format parameter: the enumeration class itself
NOTE_FORMAT_DEFAULT == "NoteFormat"

\* the formats write_by_format has an entry for
WRITE_BY_FORMAT_KEYS ==
    {"text", "verbose", "raw", "json", "yaml", "markdown", "summary"}

\* every line of a text
all_lines(t) == write_block(t, Len(t) + 1)

\* SectionContainer.write_sections with normalize False
write_sections(secs, t) ==
    LET ordered == container_iter(secs)
    IN Flatten([i \in 1..Len(ordered) |->
           <<Line("divider",
                  <<ordered[i].id, ordered[i].name,
                    join_space(headers(t, ordered[i].header_spans))>>)>>
               \o (IF Len(body(t, ordered[i])) > 0
                   THEN all_lines(body(t, ordered[i])) ELSE <<>>)])

\* SectionContainer.write_human: write_fields writes nothing
write_human(secs, t) == write_sections(secs, t)

\* SectionContainer.write_markdown with normalize False
write_markdown(secs, t) ==
    <<Line("#", <<>>)>>
        \o Flatten([i \in 1..Len(secs) |->
               <<Line("##", join_space(headers(t, secs[i].header_spans)))>>
                   \o (IF Len(body(t, secs[i])) > 0
                       THEN all_lines(body(t, secs[i])) ELSE <<>>)])

\* SectionContainer.write_full with its default arguments
write_full(secs, t) ==
    (IF Len(secs) > 0
     THEN <<Line("sections:", <<>>)>>
              \o Flatten([i \in 1..Len(secs) |->
                     <<Line("", secs[i].name)>>
                         \o Section_write(secs[i], t,
                                [body_line_limit |-> Len(t) + 1,
                                 norm_line_limit |-> Len(t) + 1,
                                 par_limit |-> 0, sent_limit |-> Len(t) + 1,
                                 include_header |-> TRUE,
                                 include_id_name |-> FALSE,
                                 include_header_spans |-> FALSE,
                                 include_body_span |-> FALSE], 0)
                         \o <<Line("divider", <<>>)>>])
     ELSE <<>>)
    \o <<Line("divider", <<"=">>)>>

\* the call of the entry of a format; the summary entry calls
\* summary_format, which takes one parameter, with two arguments; asjson
\* and asyaml are not of this repository
format_entry(note_format, secs, t) ==
    CASE note_format = "text" -> Returned(write_human(secs, t))
      [] note_format = "verbose" -> Returned(write_full(secs, t))
      [] note_format = "raw" -> Returned(<<Line("", t)>>)
      [] note_format = "json" -> Returned(<<Line("json", <<>>)>>)
      [] note_format = "yaml" -> Returned(<<Line("yaml", <<>>)>>)
      [] note_format = "markdown" -> Returned(write_markdown(secs, t))
      [] note_format = "summary" -> [error |-> "TypeError", value |-> <<>>]

\* SectionContainer.write_by_format
write_by_format(note_format, secs, t) ==
    IF note_format \in WRITE_BY_FORMAT_KEYS
    THEN format_entry(note_format, secs, t)
    ELSE [error |-> "KeyError", value |-> <<>>]

\* the container is written in a format, or in the default one
WriteByFormat(note_format) ==
    /\ pc = "container"
    /\ pc' = "formatted"
    /\ args' = note_format
    /\ LET result == write_by_format(note_format, sections, text)
       IN view' = result.value /\ error' = result.error
    /\ UNCHANGED <<row_id, hadm_id, category, text, matches, sections,
                   sections_persisted, seg_calls, filter_empty,
                   gap_sections, db, adm>>

NextFormat ==
    \/ /\ pc = "init"
       /\ \E n \in 1..MaxContainerSecs : \E as \in SlotSectionArgs(n) :
             NewContainer(SlotText(n), as)
    \/ \E note_format \in NoteFormat \cup {NOTE_FORMAT_DEFAULT} :
          WriteByFormat(note_format)

SpecFormat == Init /\ [][NextFormat]_vars

\* C26: write_by_format writes the note for every member of NoteFormat
\* and for its default argument without raising
C26_EveryFormatWrites ==
    pc = "formatted" => error = "none" /\ view # <<>>

\* what the code does instead: the summary format and the default
\* argument raise, the other formats write
SummaryAndDefaultRaise ==
    pc = "formatted" =>
        /\ args = "summary" <=> error = "TypeError"
        /\ args = NOTE_FORMAT_DEFAULT <=> error = "KeyError"
        /\ args \notin {"summary", NOTE_FORMAT_DEFAULT} =>
              error = "none" /\ view # <<>>

----------------------------------------------------------------------------
(* Calling a note factory                                                  *)

\* C27: a factory called as a function with a note event returns the note
\* create returns for the event, for NoteFactory and DefaultNoteFactory
C27_CallIsCreate ==
    pc = "called" =>
        /\ error = "none"
        /\ view = class_create(args.method, args.factory, category)

\* what the code does instead: the call raises TypeError, create is given
\* one argument too many
CallRaises == pc = "called" => error = "TypeError" /\ view = NO_SECTION

----------------------------------------------------------------------------
(* The keyed accessors of a hospital admission                             *)

\* the row ids adm.keys() returns
AdmissionKeys ==
    {HospitalAdmission_keys(adm)[k] : k \in 1..Len(HospitalAdmission_keys(adm))}

\* C28: the keyed accessors of a loaded admission agree: row_id in adm is
\* true exactly for the row ids keys() returns, adm[row_id] is the note with
\* that row id for each of them, len(adm) is the number of the keys, and
\* none of them raises for a key of the admission
C28_KeyedAccessorsAgree ==
    /\ pc = "keys" =>
          /\ error = "none"
          /\ \A k \in 1..Len(view) : view[k] \in select_row_ids_by_hadm_id(db, adm.hadm_id)
    /\ pc = "contains" =>
          /\ error = "none"
          /\ view <=> args[1] \in AdmissionKeys
    /\ pc = "getitem" /\ args[1] \in AdmissionKeys =>
          /\ error = "none"
          /\ Len(view) = 1
          /\ view[1].row_id = args[1]
    /\ pc = "len" =>
          /\ error = "none"
          /\ view = Cardinality(AdmissionKeys)

\* what the code does: keys, adm[row_id] and len agree, and row_id in adm
\* raises AttributeError for every row id
KeysItemLenAgreeContainsRaises ==
    /\ pc = "keys" =>
          /\ error = "none"
          /\ {view[k] : k \in 1..Len(view)}
                = select_row_ids_by_hadm_id(db, adm.hadm_id)
    /\ pc = "contains" => error = "AttributeError"
    /\ pc = "getitem" =>
          IF args[1] \in AdmissionKeys
          THEN error = "none" /\ view = <<Note_load(db, args[1])>>
          ELSE error = "KeyError"
    /\ pc = "len" => error = "none" /\ view = Cardinality(AdmissionKeys)

\* row_id in adm is asked for a key of the admission
ContainsAskedForKey == pc = "contains" /\ args[1] \in AdmissionKeys

----------------------------------------------------------------------------
(* The transient context of a note and the wiring of its sections          *)

MaxLoads == 2

CONTEXT_KEYS == {"doc_stash", "paragraph_factory", "dataframe_factory"}

\* the resources a context can name: two instances of each
CONTEXT_VALUES == {"a", "b"}

\* the dictionaries a context can be: some of the keys, each with a value
Contexts == UNION {[ks -> CONTEXT_VALUES] : ks \in SUBSET CONTEXT_KEYS}

\* what the notes are configured with: a context with every key
ConfiguredContexts == [CONTEXT_KEYS -> CONTEXT_VALUES]

NoteRowIds == {1, 2}

UNSET == "None"

\* the sections _get_sections creates for a note: their container is the
\* note and they have neither doc stash nor paragraph factory yet
created_sections(oid, rid, n) ==
    [i \in 1..n |-> [id |-> i - 1, container |-> oid, row_id |-> rid,
                     doc_stash |-> UNSET, paragraph_factory |-> UNSET]]

\* dict.update
dict_update(d, other) ==
    [k \in (DOMAIN d) \cup (DOMAIN other) |->
        IF k \in DOMAIN other THEN other[k] ELSE d[k]]

\* Note._trans_context_update: every section is given the note as its
\* container, the row id of the note and the doc stash and the paragraph
\* factory of the context; a context without one of the two is a KeyError
Note_trans_context_update(note, trans_context) ==
    IF ~({"doc_stash", "paragraph_factory"} \subseteq DOMAIN trans_context)
    THEN [error |-> "KeyError", value |-> note]
    ELSE [error |-> "none",
          value |->
              [note EXCEPT !.secs =
                  [i \in 1..Len(note.secs) |->
                      [trans_context_update(note.secs, note.row_id)[i]
                          EXCEPT !.container = note.id,
                                 !.doc_stash = trans_context["doc_stash"],
                                 !.paragraph_factory =
                                     trans_context["paragraph_factory"]]]]]

\* a faulty setter of NoteEvent._trans_context: the context is replaced
trans_context_setter_replace(note, trans_context) ==
    LET set == [note EXCEPT !.trans_context_var =
                               [is_none |-> FALSE, dict |-> trans_context]]
    IN Note_trans_context_update(set, set.trans_context_var.dict)

\* the setter of NoteEvent._trans_context: the context is merged in the one
\* the note has, or copied when it has none, and the sections are updated
\* with the result
trans_context_setter(note, trans_context) ==
    LET set == [note EXCEPT !.trans_context_var =
                   IF ~note.trans_context_var.is_none
                   THEN [is_none |-> FALSE,
                         dict |-> dict_update(note.trans_context_var.dict,
                                              trans_context)]
                   ELSE [is_none |-> FALSE, dict |-> trans_context]]
    IN Note_trans_context_update(set, set.trans_context_var.dict)

\* the note a pickle of the note gives back: another object, without the
\* transient attributes of the note and of its sections
unpickled(note) ==
    [note EXCEPT !.id = note.id + 1,
                 !.trans_context_var = [is_none |-> TRUE, dict |-> <<>>],
                 !.secs = [i \in 1..Len(note.secs) |->
                              [note.secs[i] EXCEPT !.container = UNSET,
                                                   !.doc_stash = UNSET,
                                                   !.paragraph_factory = UNSET]]]

\* the outcome of an operation on the note of the state
ContextSet(context, result) ==
    /\ pc' = IF result.error = "none" THEN "wired" ELSE "error"
    /\ args' = context
    /\ view' = result.value
    /\ error' = result.error
    /\ UNCHANGED <<db, adm>>
    /\ UNCHANGED note_vars

\* NoteEvent.__post_init__ of a note with n sections: the context is set
NewNoteWithContext(rid, n, context) ==
    /\ pc = "init"
    /\ ContextSet(context,
                  trans_context_setter(
                      [id |-> 1, row_id |-> rid,
                       trans_context_var |-> [is_none |-> TRUE, dict |-> <<>>],
                       secs |-> created_sections(1, rid, n)],
                      context))

\* note._trans_context = context
AssignContext(context) ==
    /\ pc = "wired"
    /\ ContextSet(context, trans_context_setter(view, context))

\* _NoteFactoryStash.load of a note that was dumped: the note is unpickled
\* and given the context of the stash
NoteFactoryStash_load(mimic_note_context) ==
    /\ pc = "wired"
    /\ view.id <= MaxLoads
    /\ ContextSet(mimic_note_context,
                  trans_context_setter(unpickled(view), mimic_note_context))

NextContext ==
    \/ /\ pc = "init"
       /\ \E rid \in NoteRowIds : \E n \in 1..MaxContainerSecs :
             \E context \in ConfiguredContexts :
                NewNoteWithContext(rid, n, context)
    \/ /\ pc = "wired"
       /\ \E context \in Contexts : AssignContext(context)
    \/ /\ pc = "wired"
       /\ \E context \in ConfiguredContexts : NoteFactoryStash_load(context)

SpecContext == Init /\ [][NextContext]_vars

\* every section of the note has the note as its container, its row id
\* and the doc stash and paragraph factory of the context of the note
Wired(note) ==
    /\ ~note.trans_context_var.is_none
    /\ \A i \in 1..Len(note.secs) :
          /\ note.secs[i].container = note.id
          /\ note.secs[i].row_id = note.row_id
          /\ note.secs[i].doc_stash = note.trans_context_var.dict["doc_stash"]
          /\ note.secs[i].paragraph_factory
                = note.trans_context_var.dict["paragraph_factory"]

\* a context assigned to the note that has one is merged in it
Merged ==
    pc = "wired" /\ view'.id = view.id =>
        /\ pc' = "wired"
        /\ \A k \in CONTEXT_KEYS :
              IF k \in DOMAIN args'
              THEN view'.trans_context_var.dict[k] = args'[k]
              ELSE /\ k \in DOMAIN view.trans_context_var.dict
                      <=> k \in DOMAIN view'.trans_context_var.dict
                   /\ k \in DOMAIN view.trans_context_var.dict
                      => view'.trans_context_var.dict[k]
                            = view.trans_context_var.dict[k]
        /\ Wired(view')

\* C29: after a note is constructed, or loaded again through the note
\* factory stash, each of its sections has the note as container, the row
\* id of the note and the doc stash and paragraph factory of the context;
\* a context assigned again is merged in the context the note has (the keys
\* it does not give keep their value) and every section is wired again
C29_ContextWiring ==
    /\ [](pc = "wired" => Wired(view))
    /\ [][Merged]_vars

\* C29 witness: a note with two sections or more, loaded again, was
\* assigned a context with a doc stash only, other than the one it had: its
\* sections have the new doc stash and the paragraph factory they had
C29_Witness ==
    /\ pc = "wired"
    /\ view.id > 1
    /\ Len(view.secs) >= 2
    /\ DOMAIN args = {"doc_stash"}
    /\ \A i \in 1..Len(view.secs) :
          /\ view.secs[i].doc_stash = args["doc_stash"]
          /\ view.secs[i].paragraph_factory # args["doc_stash"]
          /\ view.secs[i].paragraph_factory # UNSET

----------------------------------------------------------------------------
(* ListItemChunker: the iteration of the list items of a sub-document      *)

MaxChunkLen == 3

MaxChunkMatches == 2

MaxCharOffset == 1

\* the spans a match of the pattern can have in a text of length n
ChunkSpans(n) == UNION {{LexicalSpan(b, e) : e \in b..n} : b \in 0..n}

\* the matches go up and do not overlap, no two of them the same
IsChunkScan(ms) ==
    \A i \in 1..(Len(ms) - 1) : /\ ms[i].end <= ms[i + 1].begin
                                /\ ms[i] # ms[i + 1]

\* what pattern.finditer can give in a text of length n, k matches at most
RECURSIVE ChunkScansOf(_, _)
ChunkScansOf(n, k) ==
    IF k = 0 THEN {<<>>}
    ELSE LET shorter == ChunkScansOf(n, k - 1)
         IN shorter \cup
            {ms \in {Append(m, s) : m \in {x \in shorter : Len(x) = k - 1},
                                    s \in ChunkSpans(n)} : IsChunkScan(ms)}

ChunkScans(n) == ChunkScansOf(n, MaxChunkMatches)

\* match_to_span
match_to_span(m, coff) == LexicalSpan(m.begin + coff, m.end + coff)

\* the work list before the loop: the spans of the matches, after a span
\* for the text before the first match and before one for the text after
\* the last
work_list(ms, coff, text_len) ==
    LET spans == [i \in 1..Len(ms) |-> match_to_span(ms[i], coff)]
        tl == text_len + coff
        start == spans[1].begin
        end == spans[Len(spans)].end
        with_first == IF start > coff
                      THEN <<LexicalSpan(coff, start - 1)>> \o spans
                      ELSE spans
    IN IF tl > end THEN Append(with_first, LexicalSpan(end, tl))
       ELSE with_first

\* a faulty end of the loop body: start stays when the span was put back
next_start_kept(span, start, put_back) ==
    IF put_back THEN start ELSE span.end + 1

\* start = span.end + 1, at the end of the loop body
next_start(span, start, put_back) == span.end + 1

\* one pass of the while loop; created tells whether the one _create_sent
\* of the pass gives a sentence.  A sentence is the spans it was made of
\* and puts the spans put back on the work list so far
loop_body(st, created) ==
    LET span == Head(st.matches)
        rest == Tail(st.matches)
        put_back == span.begin > st.start
        gap == LexicalSpan(st.start, span.begin - 1)
        n == Len(st.sents)
    IN IF put_back
       THEN [matches |-> <<span>> \o rest,
             sents |-> IF ~created THEN st.sents
                       ELSE IF n > 0
                       THEN [st.sents EXCEPT ![n] = st.sents[n] \o <<gap>>]
                       ELSE <<<<gap>>>>,
             start |-> next_start(span, st.start, put_back),
             puts |-> Append(st.puts, span)]
       ELSE [matches |-> rest,
             sents |-> IF created THEN Append(st.sents, <<span>>)
                       ELSE st.sents,
             start |-> next_start(span, st.start, put_back),
             puts |-> st.puts]

Chunker(next_pc, arg, st) ==
    /\ pc' = next_pc
    /\ args' = arg
    /\ view' = st
    /\ UNCHANGED <<error, db, adm>>
    /\ UNCHANGED note_vars

\* __iter__ up to the loop: nothing to do for a sub-document without tokens
\* or without matches
StartChunking(token_len, text_len, coff, ms) ==
    /\ pc = "init"
    /\ token_len <= text_len
    /\ IsChunkScan(ms)
    /\ IF token_len > 0 /\ Len(ms) > 0
       THEN Chunker("chunking",
                    [coff |-> coff, text_len |-> text_len, scan |-> ms],
                    [matches |-> work_list(ms, coff, text_len),
                     sents |-> <<>>,
                     start |-> match_to_span(ms[1], coff).begin,
                     puts |-> <<>>])
       ELSE Chunker("chunked",
                    [coff |-> coff, text_len |-> text_len, scan |-> ms],
                    [matches |-> <<>>, sents |-> <<>>, start |-> 0,
                     puts |-> <<>>])

\* a pass of the loop
LoopBody(created) ==
    /\ pc = "chunking"
    /\ Len(view.matches) > 0
    /\ Chunker("chunking", args, loop_body(view, created))

\* the work list is empty: return iter(sents)
ReturnSents ==
    /\ pc = "chunking"
    /\ Len(view.matches) = 0
    /\ Chunker("chunked", args, view)

NextChunker ==
    \/ /\ pc = "init"
       /\ \E text_len \in 0..MaxChunkLen : \E token_len \in 0..1 :
             \E coff \in 0..MaxCharOffset : \E ms \in ChunkScans(text_len) :
                StartChunking(token_len, text_len, coff, ms)
    \/ \E created \in BOOLEAN : LoopBody(created)
    \/ ReturnSents

\* the loop is sequential code: a pass that can run does run
SpecChunker == Init /\ [][NextChunker]_vars /\ WF_vars(NextChunker)

\* no span was put back on the work list twice
PutBackAtMostOnce ==
    \A i, j \in 1..Len(view.puts) : i # j => view.puts[i] # view.puts[j]

\* a comes before b in the text
Before(a, b) == a.begin < b.begin \/ (a.begin = b.begin /\ a.end < b.end)

\* the sentences, and the spans inside each, are in the order of the text
InTextOrder ==
    LET flat == Flatten(view.sents)
    IN \A i \in 1..(Len(flat) - 1) : Before(flat[i], flat[i + 1])

\* C30: the iteration of a ListItemChunker terminates for every text and
\* every list of matches: a span is put back on the work list at most
\* once, the work list ends up empty and the sentences come in the order
\* of the text
C30_ChunkerTerminates ==
    /\ [](pc \in {"chunking", "chunked"} => PutBackAtMostOnce /\ InTextOrder)
    /\ [](pc = "chunked" => view.matches = <<>>)
    /\ (pc = "chunking") ~> (pc = "chunked")

\* C30 witness: the iteration ended after a span was put back, with a
\* sentence that the text between two matches was joined to and a sentence
\* of the span that was put back
C30_Witness ==
    /\ pc = "chunked"
    /\ Len(view.puts) >= 1
    /\ Len(view.sents) >= 2
    /\ Len(view.sents[1]) >= 2
    /\ view.sents[Len(view.sents)] = <<view.puts[Len(view.puts)]>>
====
